---- MODULE Spec2Model ----
(***************************************************************************)
(* Model of calorie_tracker: the User / Food / FoodLog / WeightLog models, *)
(* their derived calculations (BMR, TDEE, calorie goal, serving scaling)   *)
(* and the CLI write operations over the relational store.                 *)
(*                                                                         *)
(* Number representation.  The program computes with Python floats; the    *)
(* model computes with exact rationals held as scaled integers:            *)
(*   weights  in 1/100 kg      heights in 1/100 cm                         *)
(*   grams    in 1/10 g        TDEE    in 1/1000 kcal                      *)
(* A nullable column / Optional value is None (the empty tuple) or         *)
(* Some(v) (a 1-tuple).                                                    *)
(*                                                                         *)
(* round() is modelled as round-half-even on the exact value.  In the      *)
(* program a tie of round(x, 1) is resolved by the binary value of the     *)
(* float x, and int(tdee * 0.8) truncates the float product; the input     *)
(* sets below hold values for which the float results equal the exact      *)
(* ones.                                                                   *)
(***************************************************************************)
EXTENDS Integers, Sequences, FiniteSets, TLC

VARIABLES
    today,        \* datetime.now() of the invocation: [year, month, day]
    \* the relational store (one set of rows per table)
    users,        \* table users
    weight_logs,  \* table weight_logs
    foods,        \* table foods (each row carries its food_category_association rows)
    categories,   \* table food_categories
    food_logs,    \* table food_logs
    out,          \* the last command run, its arguments and what it reported
    \* objects the calculations are called on outside any command
    user,         \* a transient User object
    bmr_ret,      \* what user.calculate_bmr() returned (NotCalled before the call)
    tdee_ret,     \* what user.calculate_tdee() returned (NotCalled before the call)
    food_log,     \* a transient FoodLog object: its food relationship and serving
    nutrition_ret, \* what food_log.food.calculate_nutrition_for_serving(serving) returned
    derived_ret,  \* what reading food_log.calories/protein_g/carbs_g/fat_g returned
    data_ret,     \* what food_log.get_nutrition_data() returned
    session       \* the units of work of get_db_session() followed step by step: one
                  \* run on its own (its position, the calls made on its Session, the
                  \* rows pending and stored), or the position of each of two
                  \* create_user commands running at the same time

db == <<users, weight_logs, foods, categories, food_logs>>
calc == <<user, bmr_ret, tdee_ret>>
nutr == <<food_log, nutrition_ret, derived_ret, data_ret>>
vars == <<today, users, weight_logs, foods, categories, food_logs, out,
          user, bmr_ret, tdee_ret, food_log, nutrition_ret, derived_ret, data_ret,
          session>>

(***************************************************************************)
(* Optional values and arithmetic helpers                                  *)
(***************************************************************************)
None == <<>>
Some(v) == <<v>>
Val(o) == o[1]
\* the return value of a call: nothing before the call, then the value returned
NotCalled == [called |-> FALSE, value |-> None]
Returned(v) == [called |-> TRUE, value |-> v]

\* the outcome of an evaluation that can raise
Return(v) == [raised |-> FALSE, value |-> v]
ZeroDivisionError == [raised |-> TRUE, value |-> None]

\* Python truthiness of an Optional[float]: None and 0.0 are both falsy
Truthy(o) == o /= None /\ Val(o) /= 0

Abs(x) == IF x < 0 THEN -x ELSE x

\* the elements of a sequence
Range(seq) == {seq[i] : i \in DOMAIN seq}

\* Python round(n/d) for d > 0: nearest integer, ties to the even neighbour
Round(n, d) ==
    LET q == n \div d
        r == n % d
    IN  IF 2 * r < d THEN q
        ELSE IF 2 * r > d THEN q + 1
        ELSE IF q % 2 = 0 THEN q ELSE q + 1

\* Python int(n/d) for d > 0: truncation toward zero
Trunc(n, d) == IF n >= 0 THEN n \div d ELSE -((-n) \div d)

(***************************************************************************)
(* models/user.py: enums                                                   *)
(***************************************************************************)
Gender == {"male", "female", "other"}
ActivityLevel == {"sedentary", "light", "moderate", "active", "very_active"}
WeightGoal == {"lose", "maintain", "gain"}

(***************************************************************************)
(* models/user.py: User.calculate_bmr                                      *)
(***************************************************************************)
\* an age that is the difference of the years alone
AgeByYear(birth, now) == now.year - birth.year

\* age in whole years as of `now` (user.py 79-85)
Age(birth, now) ==
    LET birth_year_diff == now.year - birth.year
        had_birthday_this_year ==
            \/ now.month > birth.month
            \/ (now.month = birth.month /\ now.day >= birth.day)
    IN  IF had_birthday_this_year THEN birth_year_diff ELSE birth_year_diff - 1

\* the equation without its gender offset
MifflinNumWithoutOffset(w, h, age, c) == 1000 * w + 625 * h - 50000 * age

\* (10 * weight_kg) + (6.25 * height_cm) - (5 * age) + c, in 1/10000
MifflinNum(w, h, age, c) == 1000 * w + 625 * h - 50000 * age + 10000 * c

calculate_bmr(u, now) ==
    IF ~(Truthy(u.weight_kg) /\ Truthy(u.height_cm) /\ u.birth_date /= None)
    THEN None
    ELSE LET w == Val(u.weight_kg)
             h == Val(u.height_cm)
             age == Age(Val(u.birth_date), now)
         IN  IF u.gender = Some("male")
             THEN Some(Round(MifflinNum(w, h, age, 5), 10000))
             ELSE IF u.gender = Some("female")
             THEN Some(Round(MifflinNum(w, h, age, -161), 10000))
             ELSE Some(Round(MifflinNum(w, h, age, 5) + MifflinNum(w, h, age, -161),
                             20000))

(***************************************************************************)
(* models/user.py: User.calculate_tdee                                     *)
(***************************************************************************)
\* the activity multipliers, in 1/1000
multipliers ==
    [l \in ActivityLevel |->
        CASE l = "sedentary"   -> 1200
          [] l = "light"       -> 1375
          [] l = "moderate"    -> 1550
          [] l = "active"      -> 1725
          [] l = "very_active" -> 1900]

\* a lookup whose default is the sedentary multiplier instead of 1.55
MultiplierGetDefaultSedentary(level) ==
    IF level /= None /\ Val(level) \in DOMAIN multipliers
    THEN multipliers[Val(level)]
    ELSE 1200

\* multipliers.get(level, 1.55)
MultiplierGet(level) ==
    IF level /= None /\ Val(level) \in DOMAIN multipliers
    THEN multipliers[Val(level)]
    ELSE 1550

\* result in 1/1000 kcal
calculate_tdee(u, now) ==
    LET bmr == calculate_bmr(u, now)
    IN  IF bmr = None THEN None
        ELSE Some(Val(bmr) * MultiplierGet(u.activity_level))

(***************************************************************************)
(* Inputs of the calculation harness                                       *)
(***************************************************************************)
Date(y, m, d) == [year |-> y, month |-> m, day |-> d]

Todays == {Date(2025, 6, 15), Date(2025, 2, 28)}
BirthDates == {Date(1995, 6, 15), Date(1995, 6, 16), Date(1990, 1, 31), Date(1960, 12, 1)}
Weights == {0, 6050, 8000, 8005}
Heights == {0, 16000, 18000, 18040}

\* a value that is none of the five activity levels
OtherLevel == "unknown"

UserObjects ==
    [weight_kg : {None} \cup {Some(w) : w \in Weights},
     height_cm : {None} \cup {Some(h) : h \in Heights},
     birth_date : {None} \cup {Some(b) : b \in BirthDates},
     gender : {None} \cup {Some(g) : g \in Gender},
     activity_level : {None, Some(OtherLevel)} \cup {Some(l) : l \in ActivityLevel}]

NoOutput == [cmd |-> "none"]

EmptyDb ==
    /\ users = {}
    /\ weight_logs = {}
    /\ foods = {}
    /\ categories = {}
    /\ food_logs = {}
    /\ out = NoOutput

(***************************************************************************)
(* models/food.py: Food.calculate_nutrition_for_serving                    *)
(* serving sizes and gram amounts in 1/10 g, sodium in 1/10 mg, calories   *)
(* in kcal.  round(x, 1) of a gram amount is Round to a whole 1/10 g.      *)
(***************************************************************************)
\* a scaling that tests the nutrient's truthiness instead of `is not None`
ScaleNullableTruthy(amount, serving_weight_g, serving_size_g) ==
    IF Truthy(amount)
    THEN Some(Round(Val(amount) * serving_weight_g, serving_size_g))
    ELSE None

\* round(amount * multiplier, 1) for a nullable nutrient
ScaleNullable(amount, serving_weight_g, serving_size_g) ==
    IF amount /= None
    THEN Some(Round(Val(amount) * serving_weight_g, serving_size_g))
    ELSE None

\* the dictionary returned once multiplier = serving_weight_g / serving_size_g exists
\* the values of the food's own serving, whatever the serving weight
NutritionDictUnscaled(food, serving_weight_g) ==
    [calories  |-> food.calories,
     protein_g |-> food.protein_g,
     carbs_g   |-> food.carbs_g,
     fat_g     |-> food.fat_g,
     fiber_g   |-> food.fiber_g,
     sugar_g   |-> food.sugar_g,
     sodium_mg |-> food.sodium_mg]

NutritionDict(food, serving_weight_g) ==
    LET size == food.serving_size_g
    IN  [calories  |-> Round(food.calories * serving_weight_g, size),
         protein_g |-> Round(food.protein_g * serving_weight_g, size),
         carbs_g   |-> Round(food.carbs_g * serving_weight_g, size),
         fat_g     |-> Round(food.fat_g * serving_weight_g, size),
         fiber_g   |-> ScaleNullable(food.fiber_g, serving_weight_g, size),
         sugar_g   |-> ScaleNullable(food.sugar_g, serving_weight_g, size),
         sodium_mg |-> IF food.sodium_mg /= None
                       THEN Some(Round(Val(food.sodium_mg) * serving_weight_g, 10 * size))
                       ELSE None]

calculate_nutrition_for_serving(food, serving_weight_g) ==
    IF food.serving_size_g = 0
    THEN ZeroDivisionError
    ELSE Return(NutritionDict(food, serving_weight_g))

(***************************************************************************)
(* models/food.py: FoodLog derived properties and get_nutrition_data       *)
(***************************************************************************)
\* a derived property that truncates (int) where the code rounds
DerivedTruncating(log, field) ==
    IF log.food /= None /\ log.serving_size_g /= 0
    THEN IF Val(log.food).serving_size_g = 0
         THEN ZeroDivisionError
         ELSE Return(Trunc(Val(log.food)[field] * log.serving_size_g,
                           Val(log.food).serving_size_g))
    ELSE Return(0)

\* `if self.food and self.serving_size_g:` then round(per_serving * multiplier[, 1])
Derived(log, field) ==
    IF log.food /= None /\ log.serving_size_g /= 0
    THEN IF Val(log.food).serving_size_g = 0
         THEN ZeroDivisionError
         ELSE Return(Round(Val(log.food)[field] * log.serving_size_g,
                           Val(log.food).serving_size_g))
    ELSE Return(0)

FoodLog_calories(log) == Derived(log, "calories")
FoodLog_protein_g(log) == Derived(log, "protein_g")
FoodLog_carbs_g(log) == Derived(log, "carbs_g")
FoodLog_fat_g(log) == Derived(log, "fat_g")

\* {} when the food is missing, else the food's dictionary for the logged serving
EmptyDict == [empty |-> TRUE]
get_nutrition_data(log) ==
    IF log.food = None
    THEN Return(EmptyDict)
    ELSE calculate_nutrition_for_serving(Val(log.food), log.serving_size_g)

(***************************************************************************)
(* Inputs of the nutrition harness                                         *)
(***************************************************************************)
FoodObjects ==
    [serving_size_g : {0, 300, 1000},
     calories : {75, 155, 200},
     protein_g : {25, 104},
     carbs_g : {40, 250},
     fat_g : {0, 25},
     fiber_g : {None, Some(25)},
     sugar_g : {None, Some(0)},
     sodium_mg : {None, Some(1200)}]

ServingWeights == {0, 100, 450, 1500, 3000}

FoodLogObjects ==
    [food : {None} \cup {Some(f) : f \in FoodObjects},
     serving_size_g : ServingWeights]

\* no FoodLog object under evaluation
\* no unit of work under observation
NoSession == session = [pc |-> "idle"]

NoFoodHarness ==
    /\ NoSession
    /\ food_log = [food |-> None, serving_size_g |-> 0]
    /\ nutrition_ret = [called |-> FALSE]
    /\ derived_ret = [called |-> FALSE]
    /\ data_ret = [called |-> FALSE]

NoUserHarness ==
    /\ today \in Todays
    /\ user = [weight_kg |-> None, height_cm |-> None, birth_date |-> None,
               gender |-> None, activity_level |-> None]
    /\ bmr_ret = NotCalled
    /\ tdee_ret = NotCalled

InitUser ==
    /\ today \in Todays
    /\ user \in UserObjects
    /\ bmr_ret = NotCalled
    /\ tdee_ret = NotCalled
    /\ EmptyDb
    /\ NoFoodHarness

CallCalculateBmr ==
    /\ bmr_ret = NotCalled
    /\ bmr_ret' = Returned(calculate_bmr(user, today))
    /\ UNCHANGED <<today, db, out, user, tdee_ret, nutr, session>>

CallCalculateTdee ==
    /\ tdee_ret = NotCalled
    /\ tdee_ret' = Returned(calculate_tdee(user, today))
    /\ UNCHANGED <<today, db, out, user, bmr_ret, nutr, session>>

NextUser == CallCalculateBmr \/ CallCalculateTdee

SpecUser == InitUser /\ [][NextUser]_vars

InitFood ==
    /\ food_log \in FoodLogObjects
    /\ nutrition_ret = [called |-> FALSE]
    /\ derived_ret = [called |-> FALSE]
    /\ data_ret = [called |-> FALSE]
    /\ NoSession
    /\ EmptyDb
    /\ NoUserHarness

\* food.calculate_nutrition_for_serving(serving) on the log's food
CallCalculateNutrition ==
    /\ ~nutrition_ret.called
    /\ food_log.food /= None
    /\ nutrition_ret' =
          [called |-> TRUE,
           ret |-> calculate_nutrition_for_serving(Val(food_log.food),
                                                   food_log.serving_size_g)]
    /\ UNCHANGED <<today, db, out, calc, food_log, derived_ret, data_ret, session>>

\* reading the four derived properties of the log
ReadDerived ==
    /\ ~derived_ret.called
    /\ derived_ret' = [called |-> TRUE,
                       calories |-> FoodLog_calories(food_log),
                       protein_g |-> FoodLog_protein_g(food_log),
                       carbs_g |-> FoodLog_carbs_g(food_log),
                       fat_g |-> FoodLog_fat_g(food_log)]
    /\ UNCHANGED <<today, db, out, calc, food_log, nutrition_ret, data_ret, session>>

CallGetNutritionData ==
    /\ ~data_ret.called
    /\ data_ret' = [called |-> TRUE, ret |-> get_nutrition_data(food_log)]
    /\ UNCHANGED <<today, db, out, calc, food_log, nutrition_ret, derived_ret, session>>

NextFood == CallCalculateNutrition \/ ReadDerived \/ CallGetNutritionData

SpecFood == InitFood /\ [][NextFood]_vars

(***************************************************************************)
(* The relational store and the CLI commands (cli/main.py)                 *)
(***************************************************************************)
MaxUsers == 2
MaxFoods == 1
MaxFoodLogs == 2
MaxWeightLogs == 2
\* the largest primary key handed out (ids grow past deleted rows)
MaxId == 3

\* the tables left by a command hold at most nu users, nf foods, nl food logs
\* and nw weight logs, with no log id above maxid
Within(nu, nf, nl, nw, maxid) ==
    /\ Cardinality(users') <= nu
    /\ Cardinality(foods') <= nf
    /\ Cardinality(food_logs') <= nl
    /\ Cardinality(weight_logs') <= nw
    /\ \A r \in users' \cup food_logs' \cup weight_logs' : r.id <= maxid

WithinBounds == Within(MaxUsers, MaxFoods, MaxFoodLogs, MaxWeightLogs, MaxId)

Usernames == {"alice", "bob"}

\* the day the commands run on, and the dates given with --date
CliToday == Date(2025, 6, 15)
LogDates == {Date(2025, 6, 14), Date(2025, 6, 15)}
\* time of day (an abstract tick after midnight) read by datetime.utcnow()
TimesOfDay == {1}
\* a DateTime column: click.DateTime("%Y-%m-%d") parses to midnight (tod 0)
Midnight(date) == [date |-> date, tod |-> 0]
UtcNow == {[date |-> today, tod |-> t] : t \in TimesOfDay}

\* the next INTEGER PRIMARY KEY of a table: one more than the largest id in it
NextId(table) ==
    IF table = {} THEN 1
    ELSE (CHOOSE i \in {r.id : r \in table} : \A r \in table : r.id <= i) + 1

\* session.query(User).filter(User.username == username).first()
UserByUsername(username) == {u \in users : u.username = username}
\* a lookup that lost its filter: the first food of the table, whatever its id
FoodByIdUnfiltered(food_id) == foods

\* session.query(Food).filter(Food.id == food_id).first()
FoodById(food_id) == {f \in foods : f.id = food_id}

\* an existence test that never finds the user
UsernameExistsNever(username) == FALSE

\* create_user: `if existing_user:`
UsernameExists(username) == UserByUsername(username) /= {}

\* a store whose only unique column is users.username
UsernameOnlyIntegrityError(u) == \E v \in users : v.username = u.username

\* a store whose only unique column is users.email
EmailOnlyIntegrityError(u) ==
    u.email /= None /\ \E v \in users : v.email = u.email

\* unique=True on users.username and users.email: the INSERT is refused
UserIntegrityError(u) ==
    \/ \E v \in users : v.username = u.username
    \/ u.email /= None /\ \E v \in users : v.email = u.email

(***************************************************************************)
(* create_user                                                             *)
(***************************************************************************)
\* the options given to `user create`: a complete profile, one without a
\* height, one without a weight
CreateInputs ==
    {[email |-> Some("a@example.com"),
      profile |-> [birth_date |-> Some(Date(1995, 6, 15)), gender |-> "male",
                   height_cm |-> Some(18000), weight_kg |-> Some(8000),
                   activity_level |-> "moderate", weight_goal |-> "lose",
                   target_weight_kg |-> Some(7500)]],
     [email |-> Some("a@example.com"),
      profile |-> [birth_date |-> Some(Date(1995, 6, 15)), gender |-> "other",
                   height_cm |-> None, weight_kg |-> Some(8000),
                   activity_level |-> "moderate", weight_goal |-> "maintain",
                   target_weight_kg |-> None]],
     [email |-> None,
      profile |-> [birth_date |-> Some(Date(1990, 1, 31)), gender |-> "female",
                   height_cm |-> Some(16000), weight_kg |-> None,
                   activity_level |-> "sedentary", weight_goal |-> "gain",
                   target_weight_kg |-> None]]}

\* a goal that rounds where the code truncates
GoalForTdeeRounded(tdee, weight_goal) ==
    IF weight_goal = "lose" THEN Round(tdee * 8, 10000)
    ELSE IF weight_goal = "gain" THEN Round(tdee * 115, 100000)
    ELSE Round(tdee, 1000)

\* the calorie goal for a TDEE (in 1/1000 kcal) and a weight goal:
\* int(tdee * 0.8), int(tdee * 1.15), int(tdee)
GoalForTdee(tdee, weight_goal) ==
    IF weight_goal = "lose" THEN Trunc(tdee * 8, 10000)
    ELSE IF weight_goal = "gain" THEN Trunc(tdee * 115, 100000)
    ELSE Trunc(tdee, 1000)

\* a User(...) whose daily_calorie_goal is never set
NewUserWithoutGoal(username, email, p) ==
    [id |-> 0, daily_calorie_goal |-> None, updated_at |-> None,
     username |-> username, email |-> email,
     birth_date |-> p.birth_date, gender |-> Some(p.gender),
     height_cm |-> p.height_cm, weight_kg |-> p.weight_kg,
     activity_level |-> Some(p.activity_level),
     weight_goal |-> p.weight_goal,
     target_weight_kg |-> p.target_weight_kg]

\* User(...) with daily_calorie_goal set when calculate_tdee() is not None
NewUser(username, email, p) ==
    LET u == [username |-> username, email |-> email,
              birth_date |-> p.birth_date, gender |-> Some(p.gender),
              height_cm |-> p.height_cm, weight_kg |-> p.weight_kg,
              activity_level |-> Some(p.activity_level),
              weight_goal |-> p.weight_goal,
              target_weight_kg |-> p.target_weight_kg]
        tdee == calculate_tdee(u, today)
        goal == IF tdee /= None THEN Some(GoalForTdee(Val(tdee), u.weight_goal)) ELSE None
    IN  [id |-> 0, daily_calorie_goal |-> goal, updated_at |-> None] @@ u

create_user(username, email, p, now) ==
    LET args == [username |-> username]
        Report(status) == [cmd |-> "create_user", args |-> args, status |-> status]
        new == [NewUser(username, email, p) EXCEPT !.id = NextId(users),
                                                     !.updated_at = Some(now)]
    IN  IF UsernameExists(username)
        THEN \* "Error: Username ... already exists"; return
             /\ out' = Report("username_exists")
             /\ UNCHANGED db
        ELSE IF UserIntegrityError(new)
        THEN \* session.commit() raises; get_db_session rolls back and re-raises
             /\ out' = Report("error")
             /\ UNCHANGED db
        ELSE /\ users' = users \cup {new}
             /\ IF Truthy(p.weight_kg)
                THEN /\ weight_logs' = weight_logs \cup
                           {[id |-> NextId(weight_logs), user_id |-> new.id,
                             weight_kg |-> Val(p.weight_kg), log_date |-> now,
                             notes |-> Some("Initial weight")]}
                ELSE UNCHANGED weight_logs
             /\ out' = Report("ok")
             /\ UNCHANGED <<foods, categories, food_logs>>

CreateUser ==
    \E username \in Usernames, c \in CreateInputs, now \in UtcNow :
        /\ create_user(username, c.email, c.profile, now)
        /\ WithinBounds
        /\ UNCHANGED <<today, calc, nutr, session>>

(***************************************************************************)
(* Calendar arithmetic and datetimes                                       *)
(***************************************************************************)
\* the days before the first of each month in a year of 365 days (the dates
\* the commands run on and are given are all of 2025)
DaysBeforeMonth == <<0, 31, 59, 90, 120, 151, 181, 212, 243, 273, 304, 334>>
DayOfYear(date) == DaysBeforeMonth[date.month] + date.day
DateOfDay(year, n) ==
    LET m == CHOOSE m \in 1..12 : /\ DaysBeforeMonth[m] < n
                                  /\ (m = 12 \/ n <= DaysBeforeMonth[m + 1])
    IN  Date(year, m, n - DaysBeforeMonth[m])

\* date + timedelta(days=k), within the year
PlusDays(date, k) == DateOfDay(date.year, DayOfYear(date) + k)

\* a <= b on datetimes
DateTimeLE(a, b) ==
    \/ a.date.year < b.date.year
    \/ /\ a.date.year = b.date.year
       /\ \/ DayOfYear(a.date) < DayOfYear(b.date)
          \/ (DayOfYear(a.date) = DayOfYear(b.date) /\ a.tod <= b.tod)

\* datetime.now(): the local clock (the machine is in the UTC zone, so it
\* reads what datetime.utcnow() reads)
LocalNow == {[date |-> today, tod |-> t] : t \in TimesOfDay}

\* log_date.strftime("%Y-%m-%d"): the calendar date, the time of day dropped
DateKey(datetime) == datetime.date

(***************************************************************************)
(* log_weight                                                              *)
(***************************************************************************)
LoggedWeights == {7950}

\* a log_weight that forgets the user's current-weight snapshot
WithCurrentWeightForgotten(u, weight_kg, now) == u

\* a log_weight that also derives the daily calorie goal anew from the weight
WithCurrentWeightAndGoal(u, weight_kg, now) ==
    LET v == [u EXCEPT !.weight_kg = Some(weight_kg), !.updated_at = Some(now)]
        tdee == calculate_tdee(v, today)
    IN  [v EXCEPT !.daily_calorie_goal =
                      IF tdee /= None THEN Some(GoalForTdee(Val(tdee), v.weight_goal))
                      ELSE None]

\* user.weight_kg = weight_kg; user.updated_at = datetime.utcnow()
WithCurrentWeight(u, weight_kg, now) ==
    [u EXCEPT !.weight_kg = Some(weight_kg), !.updated_at = Some(now)]

\* the rows `.filter(WeightLog.log_date < date).order_by(log_date.desc())
\* .first()` can return: None without a row before `date`, else a row of the
\* greatest log_date (rows with equal log_date come in no defined order)
PreviousLogs(username, date) ==
    LET prior == {l \in weight_logs :
                     /\ \E u \in UserByUsername(username) : l.user_id = u.id
                     /\ ~DateTimeLE(Midnight(date), l.log_date)}
    IN  IF prior = {} THEN {None}
        ELSE {Some(l) : l \in {l \in prior :
                                  \A k \in prior : DateTimeLE(k.log_date, l.log_date)}}

\* `if previous_logs:` abs(diff) < 0.01: no change; else gained / lost
\* f"{...:.1f}" kg since the previous measurement (weights in 1/100 kg, the
\* amount printed in 1/10 kg)
SincePrevious(weight_kg, previous_logs) ==
    IF previous_logs = None THEN None
    ELSE LET diff == weight_kg - Val(previous_logs).weight_kg
             on == DateKey(Val(previous_logs).log_date)
         IN  IF Abs(diff) < 1
             THEN Some([text |-> "no_change", kg |-> None, on |-> None])
             ELSE IF diff > 0
             THEN Some([text |-> "gained", kg |-> Some(Round(diff, 10)), on |-> Some(on)])
             ELSE Some([text |-> "lost", kg |-> Some(Round(Abs(diff), 10)), on |-> Some(on)])

\* `if user.target_weight_kg:` abs(diff_to_target) < 0.5: reached; else the
\* amount above / below the target
ToTarget(weight_kg, target_weight_kg) ==
    IF Truthy(target_weight_kg)
    THEN LET diff_to_target == weight_kg - Val(target_weight_kg)
         IN  IF Abs(diff_to_target) < 50
             THEN Some([text |-> "reached", kg |-> None])
             ELSE Some([text |-> IF diff_to_target > 0 THEN "above" ELSE "below",
                        kg |-> Some(Round(Abs(diff_to_target), 10))])
    ELSE None

\* a log_weight that takes the weight of the latest-dated log for the current
\* weight: the snapshot is left alone when a stored log is dated after `date`
log_weight_by_date(username, weight_kg, date, now, previous_logs) ==
    LET args == [username |-> username, weight_kg |-> weight_kg, date |-> date]
        Report(status, result) ==
            [cmd |-> "log_weight", args |-> args, status |-> status] @@ result
    IN  IF UserByUsername(username) = {}
        THEN /\ out' = Report("user_not_found", <<>>)
             /\ UNCHANGED db
        ELSE LET u == CHOOSE u \in UserByUsername(username) : TRUE
                 later == {l \in weight_logs : /\ l.user_id = u.id
                                                /\ ~DateTimeLE(l.log_date, Midnight(date))}
             IN  /\ weight_logs' = weight_logs \cup
                       {[id |-> NextId(weight_logs), user_id |-> u.id,
                         weight_kg |-> weight_kg, log_date |-> Midnight(date),
                         notes |-> None]}
                 /\ users' = IF later = {}
                              THEN (users \ {u}) \cup {WithCurrentWeight(u, weight_kg, now)}
                              ELSE users
                 /\ out' = Report("ok",
                              [previous |-> SincePrevious(weight_kg, previous_logs),
                               target |-> ToTarget(weight_kg, u.target_weight_kg)])
                 /\ UNCHANGED <<foods, categories, food_logs>>

\* weight log --username --weight-kg --date, run at `now`; `previous_logs` is
\* what the query for the previous measurement returned
log_weight(username, weight_kg, date, now, previous_logs) ==
    LET args == [username |-> username, weight_kg |-> weight_kg, date |-> date]
        Report(status, result) ==
            [cmd |-> "log_weight", args |-> args, status |-> status] @@ result
    IN  IF UserByUsername(username) = {}
        THEN /\ out' = Report("user_not_found", <<>>)
             /\ UNCHANGED db
        ELSE LET u == CHOOSE u \in UserByUsername(username) : TRUE
             IN  /\ weight_logs' = weight_logs \cup
                       {[id |-> NextId(weight_logs), user_id |-> u.id,
                         weight_kg |-> weight_kg, log_date |-> Midnight(date),
                         notes |-> None]}
                 /\ users' = (users \ {u}) \cup {WithCurrentWeight(u, weight_kg, now)}
                 /\ out' = Report("ok",
                              [previous |-> SincePrevious(weight_kg, previous_logs),
                               target |-> ToTarget(weight_kg, u.target_weight_kg)])
                 /\ UNCHANGED <<foods, categories, food_logs>>

LogWeight ==
    \E username \in Usernames, w \in LoggedWeights, date \in LogDates, now \in UtcNow :
      \E previous_logs \in PreviousLogs(username, date) :
        /\ log_weight(username, w, date, now, previous_logs)
        /\ WithinBounds
        /\ UNCHANGED <<today, calc, nutr, session>>

(***************************************************************************)
(* add_food                                                                *)
(***************************************************************************)
FoodNames == {"oats"}
Brands == {None}
CategoryNames == {None, Some("grains")}
\* the nutrition options given to `food add`
FoodInputs ==
    {[serving_size_g |-> 1000, calories |-> 200, protein_g |-> 104, carbs_g |-> 250,
      fat_g |-> 25, fiber_g |-> Some(25), sugar_g |-> None],
     [serving_size_g |-> 0, calories |-> 155, protein_g |-> 25, carbs_g |-> 40,
      fat_g |-> 0, fiber_g |-> None, sugar_g |-> Some(0)]}

\* session.query(FoodCategory).filter(FoodCategory.name == category).first()
CategoryByName(name) == {c \in categories : c.name = name}

add_food(name, brand, n, category, confirm) ==
    LET args == [name |-> name]
        Report(status) == [cmd |-> "add_food", args |-> args, status |-> status]
        existing_food == {f \in foods : f.name = name /\ f.brand = brand}
        new_category == [id |-> NextId(categories), name |-> Val(category)]
        category_row ==
            IF CategoryByName(Val(category)) /= {}
            THEN CHOOSE c \in CategoryByName(Val(category)) : TRUE
            ELSE new_category
        food == [id |-> NextId(foods), name |-> name, brand |-> brand,
                 serving_size_g |-> n.serving_size_g, calories |-> n.calories,
                 protein_g |-> n.protein_g, carbs_g |-> n.carbs_g, fat_g |-> n.fat_g,
                 fiber_g |-> n.fiber_g, sugar_g |-> n.sugar_g, sodium_mg |-> None,
                 categories |-> IF category /= None THEN {category_row.id} ELSE {}]
    IN  IF existing_food /= {} /\ ~confirm
        THEN \* "Do you want to continue adding this food?" answered no
             /\ out' = Report("declined")
             /\ UNCHANGED db
        ELSE /\ foods' = foods \cup {food}
             /\ categories' = IF category /= None
                              THEN categories \cup {category_row}
                              ELSE categories
             /\ out' = Report("ok")
             /\ UNCHANGED <<users, weight_logs, food_logs>>

AddFood ==
    \E name \in FoodNames, brand \in Brands, n \in FoodInputs,
       category \in CategoryNames, confirm \in BOOLEAN :
        /\ add_food(name, brand, n, category, confirm)
        /\ WithinBounds
        /\ UNCHANGED <<today, calc, nutr, session>>

(***************************************************************************)
(* log_meal                                                                *)
(***************************************************************************)
MealTypes == {"lunch"}
MealServings == {1500}

log_meal(username, food_id, serving_size, meal_type, date) ==
    LET args == [username |-> username, food_id |-> food_id,
                 serving_size |-> serving_size, meal_type |-> meal_type, date |-> date]
        Report(status) == [cmd |-> "log_meal", args |-> args, status |-> status]
    IN  IF UserByUsername(username) = {}
        THEN /\ out' = Report("user_not_found")
             /\ UNCHANGED db
        ELSE IF FoodById(food_id) = {}
        THEN /\ out' = Report("food_not_found")
             /\ UNCHANGED db
        ELSE LET u == CHOOSE u \in UserByUsername(username) : TRUE
                 food == CHOOSE f \in FoodById(food_id) : TRUE
             IN  /\ food_logs' = food_logs \cup
                       {[id |-> NextId(food_logs), user_id |-> u.id, food_id |-> food.id,
                         meal_type |-> meal_type, serving_size_g |-> serving_size,
                         log_date |-> Midnight(date)]}
                 \* after the commit: food.calculate_nutrition_for_serving(serving_size)
                 /\ out' = IF calculate_nutrition_for_serving(food, serving_size).raised
                           THEN Report("error")
                           ELSE Report("ok")
                 /\ UNCHANGED <<users, weight_logs, foods, categories>>

LogMeal ==
    \E username \in Usernames, food_id \in 1..(MaxFoods + 1), serving \in MealServings,
       meal_type \in MealTypes, date \in LogDates :
        /\ log_meal(username, food_id, serving, meal_type, date)
        /\ WithinBounds
        /\ UNCHANGED <<today, calc, nutr, session>>

(***************************************************************************)
(* session.delete(user): cascade="all, delete-orphan" on weight_logs and   *)
(* food_logs                                                               *)
(***************************************************************************)
\* a relationship without the delete cascade
OwnedByNoCascade(u, table) == {}

\* the rows of a log table that the cascade removes with user u
OwnedBy(u, table) == {l \in table : l.user_id = u.id}

\* a DELETE of the users row alone, the logs left behind
delete_user_row_only(u) ==
    /\ users' = users \ {u}
    /\ out' = [cmd |-> "delete_user",
               args |-> [username |-> u.username,
                         weight_logs_deleted |-> 0, food_logs_deleted |-> 0],
               status |-> "ok"]
    /\ UNCHANGED <<weight_logs, foods, categories, food_logs>>

delete_user(u) ==
    /\ users' = users \ {u}
    /\ weight_logs' = weight_logs \ OwnedBy(u, weight_logs)
    /\ food_logs' = food_logs \ OwnedBy(u, food_logs)
    /\ out' = [cmd |-> "delete_user",
               args |-> [username |-> u.username,
                         \* the row counts of the cascaded DELETEs
                         weight_logs_deleted |-> Cardinality(OwnedBy(u, weight_logs)),
                         food_logs_deleted |-> Cardinality(OwnedBy(u, food_logs))],
               status |-> "ok"]
    /\ UNCHANGED <<foods, categories>>

DeleteUser ==
    \E u \in users :
        /\ delete_user(u)
        /\ UNCHANGED <<today, calc, nutr, session>>

Init ==
    /\ today = CliToday
    /\ user = [weight_kg |-> None, height_cm |-> None, birth_date |-> None,
               gender |-> None, activity_level |-> None]
    /\ bmr_ret = NotCalled
    /\ tdee_ret = NotCalled
    /\ NoFoodHarness
    /\ EmptyDb

Next == CreateUser \/ LogWeight \/ AddFood \/ LogMeal \/ DeleteUser

Spec == Init /\ [][Next]_vars

(***************************************************************************)
(* create_user over the whole range of profile options                     *)
(***************************************************************************)
ProfileOptions ==
    [birth_date : {None, Some(Date(1995, 6, 15))},
     gender : {"male", "other"},
     height_cm : {Some(18000)},
     weight_kg : {None, Some(6050), Some(8000)},
     activity_level : {"sedentary", "moderate", "very_active"},
     weight_goal : WeightGoal,
     target_weight_kg : {None}]

CreateUserAnyProfile ==
    \E username \in Usernames, p \in ProfileOptions, now \in UtcNow :
        /\ create_user(username, None, p, now)
        /\ WithinBounds
        /\ UNCHANGED <<today, calc, nutr, session>>

NextCreate == CreateUserAnyProfile

SpecCreate == Init /\ [][NextCreate]_vars

(***************************************************************************)
(* create_user with and without the attributes the calorie goal needs      *)
(***************************************************************************)
MaxGoalUsers == 2
\* --birth-date, --height-cm, --weight-kg given or not, and given as 0
GoalProfiles ==
    [birth_date : {None, Some(Date(1995, 6, 15))},
     gender : {"male"},
     height_cm : {None, Some(0), Some(18000)},
     weight_kg : {None, Some(0), Some(8000)},
     activity_level : {"moderate"},
     weight_goal : WeightGoal,
     target_weight_kg : {None}]

WithinGoalBounds == Within(MaxGoalUsers, 0, 0, MaxGoalUsers, MaxGoalUsers)

CreateUserWithProfile ==
    \E username \in Usernames, p \in GoalProfiles, now \in UtcNow :
        /\ create_user(username, None, p, now)
        /\ WithinGoalBounds
        /\ UNCHANGED <<today, calc, nutr, session>>

NextGoal == CreateUserWithProfile

SpecGoal == Init /\ [][NextGoal]_vars

(***************************************************************************)
(* create_user and add_food alone, over a catalog of several foods and     *)
(* category names                                                          *)
(***************************************************************************)
MaxCatalogUsers == 2
MaxCatalogFoods == 2
CatalogCategoryNames == {None, Some("grains"), Some("dairy")}

WithinCatalogBounds ==
    Within(MaxCatalogUsers, MaxCatalogFoods, 0, MaxCatalogUsers, MaxCatalogUsers)

CreateUserInCatalog ==
    \E username \in Usernames, c \in CreateInputs, now \in UtcNow :
        /\ create_user(username, c.email, c.profile, now)
        /\ WithinCatalogBounds
        /\ UNCHANGED <<today, calc, nutr, session>>

AddFoodToCatalog ==
    \E name \in FoodNames, brand \in Brands, n \in FoodInputs,
       category \in CatalogCategoryNames, confirm \in BOOLEAN :
        /\ add_food(name, brand, n, category, confirm)
        /\ WithinCatalogBounds
        /\ UNCHANGED <<today, calc, nutr, session>>

NextCatalog == CreateUserInCatalog \/ AddFoodToCatalog

SpecCatalog == Init /\ [][NextCatalog]_vars

(***************************************************************************)
(* Aggregation: log_summary, export_report, list_logs (cli/main.py)        *)
(* A float quotient n / d is held exactly, as the pair Ratio(n, d).        *)
(***************************************************************************)
Ratio(n, d) == [num |-> n, den |-> d]
Zero == Ratio(0, 1)

\* the FoodLog object of a stored row, its food relationship loaded
FoodLogObject(l) ==
    [food |-> IF \E f \in foods : f.id = l.food_id
              THEN Some(CHOOSE f \in foods : f.id = l.food_id)
              ELSE None,
     serving_size_g |-> l.serving_size_g]

\* reading a derived property of one of the logs raises
AnyRaises(logs) == \E l \in logs : Derived(FoodLogObject(l), "calories").raised

RECURSIVE SumOf(_, _)
\* sum(log.<field> for log in logs)
SumOf(field, logs) ==
    IF logs = {} THEN 0
    ELSE LET l == CHOOSE l \in logs : TRUE
         IN  Derived(FoodLogObject(l), field).value + SumOf(field, logs \ {l})

RECURSIVE SumRows(_, _)
\* sum(d[<field>] for d in rows)
SumRows(field, rows) ==
    IF rows = <<>> THEN 0 ELSE Head(rows)[field] + SumRows(field, Tail(rows))

\* start_date: midnight of the day days-1 days before now
PeriodStart(days, now) == Midnight(PlusDays(now.date, 1 - days))

\* the food logs of the period without the filter on the user
FoodLogsInPeriodOfAll(u, days, now) ==
    {l \in food_logs : /\ \E f \in foods : f.id = l.food_id
                       /\ DateTimeLE(PeriodStart(days, now), l.log_date)
                       /\ DateTimeLE(l.log_date, now)}

\* the user's food logs with start_date <= log_date <= end_date, joined to Food
FoodLogsInPeriod(u, days, now) ==
    {l \in food_logs : /\ l.user_id = u.id
                       /\ \E f \in foods : f.id = l.food_id
                       /\ DateTimeLE(PeriodStart(days, now), l.log_date)
                       /\ DateTimeLE(l.log_date, now)}

\* the user's weight logs with start_date <= log_date <= end_date
WeightLogsInPeriod(u, days, now) ==
    {l \in weight_logs : /\ l.user_id = u.id
                         /\ DateTimeLE(PeriodStart(days, now), l.log_date)
                         /\ DateTimeLE(l.log_date, now)}

\* the rows of a query in the order ORDER BY log_date returns them: any order
\* that ascends by log_date (rows with equal log_date come in no defined order)
OrderedByLogDate(rows) ==
    {o \in [1..Cardinality(rows) -> rows] :
        /\ \A i, j \in DOMAIN o : o[i] = o[j] => i = j
        /\ \A i, j \in DOMAIN o : i < j => DateTimeLE(o[i].log_date, o[j].log_date)}

\* date_range: the days calendar dates from start_date on
DateRange(days, now) ==
    [i \in 1..days |-> PlusDays(PeriodStart(days, now).date, i - 1)]

\* logs_by_date.get(date_str, []): every log of the period, whatever its date
DayLogsUngrouped(logs, date) == logs

\* logs_by_date.get(date_str, [])
DayLogs(logs, date) == {l \in logs : DateKey(l.log_date) = date}

\* a percentage that divides whenever a goal is stored, 0 included
GoalPercentUnguarded(calories, goal) ==
    IF goal /= None THEN Ratio(calories * 100, Val(goal)) ELSE Zero

\* log_summary: `if user.daily_calorie_goal:` (calories / goal) * 100, else 0
GoalPercent(calories, goal) ==
    IF Truthy(goal) THEN Ratio(calories * 100, Val(goal)) ELSE Zero

\* export_report: `if user.daily_calorie_goal and calories > 0:`
ReportGoalPercent(calories, goal) ==
    IF Truthy(goal) /\ calories > 0 THEN Ratio(calories * 100, Val(goal)) ELSE Zero

\* the totals of one date of date_range
DayRow(logs, date) ==
    LET day_logs == DayLogs(logs, date)
    IN  [date |-> date,
         calories |-> SumOf("calories", day_logs),
         protein |-> SumOf("protein_g", day_logs),
         carbs |-> SumOf("carbs_g", day_logs),
         fat |-> SumOf("fat_g", day_logs),
         log_count |-> Cardinality(day_logs)]

\* daily_totals of log_summary: one dictionary per date of date_range
DailyTotals(logs, days, now, goal) ==
    [i \in 1..days |->
        LET row == DayRow(logs, DateRange(days, now)[i])
        IN  row @@ [goal_percent |-> GoalPercent(row.calories, goal)]]

\* daily_data of export_report: one dictionary per date of date_range
DailyData(logs, days, now, goal) ==
    [i \in 1..days |->
        LET row == DayRow(logs, DateRange(days, now)[i])
        IN  row @@ [goal_percent |-> ReportGoalPercent(row.calories, goal)]]

\* [d for d in daily_totals if d["log_count"] > 0]
WithLogs(daily_totals) == SelectSeq(daily_totals, LAMBDA d : d.log_count > 0)

\* a denominator that counts every day of the period
DaysOfPeriod(daily_totals) == Len(daily_totals)

\* days_with_logs = sum(1 for d in daily_totals if d["log_count"] > 0)
DaysWithLogs(daily_totals) == Len(WithLogs(daily_totals))

\* the summary statistics of log_summary (656-677); it has returned before
\* when no row has logs
Averages(daily_totals, goal) ==
    LET days_with_logs == DaysWithLogs(daily_totals)
        total_calories == SumRows("calories", daily_totals)
    IN  IF days_with_logs > 0
        THEN [days_with_logs |-> days_with_logs,
              avg_calories |-> Ratio(total_calories, days_with_logs),
              avg_protein |-> Ratio(SumRows("protein", daily_totals), days_with_logs),
              avg_carbs |-> Ratio(SumRows("carbs", daily_totals), days_with_logs),
              avg_fat |-> Ratio(SumRows("fat", daily_totals), days_with_logs),
              avg_goal_percent |->
                  IF Truthy(goal)
                  THEN Ratio(total_calories * 100, days_with_logs * Val(goal))
                  ELSE Zero]
        ELSE [days_with_logs |-> 0, avg_calories |-> Zero, avg_protein |-> Zero,
              avg_carbs |-> Zero, avg_fat |-> Zero, avg_goal_percent |-> Zero]

\* report statistics that divide by the number of days of the period
ReportAveragesOverPeriod(daily_data, goal) ==
    LET days == Len(daily_data)
        total_calories == SumRows("calories", daily_data)
    IN  [days_with_logs |-> DaysWithLogs(daily_data),
         avg_calories |-> Ratio(total_calories, days),
         avg_protein |-> Ratio(SumRows("protein", daily_data), days),
         avg_carbs |-> Ratio(SumRows("carbs", daily_data), days),
         avg_fat |-> Ratio(SumRows("fat", daily_data), days),
         avg_goal_percent |->
             IF Truthy(goal) THEN Ratio(total_calories * 100, days * Val(goal))
             ELSE Zero]

\* the summary statistics of export_report (1069-1082): over days_with_data,
\* the rows with logs; all 0 without such a row
ReportAverages(daily_data, goal) ==
    LET days_with_logs == DaysWithLogs(daily_data)
        days_with_data == WithLogs(daily_data)
        avg_calories == Ratio(SumRows("calories", days_with_data), days_with_logs)
    IN  IF days_with_logs > 0
        THEN [days_with_logs |-> days_with_logs,
              avg_calories |-> avg_calories,
              avg_protein |-> Ratio(SumRows("protein", days_with_data), days_with_logs),
              avg_carbs |-> Ratio(SumRows("carbs", days_with_data), days_with_logs),
              avg_fat |-> Ratio(SumRows("fat", days_with_data), days_with_logs),
              avg_goal_percent |->
                  IF Truthy(goal)
                  THEN Ratio(avg_calories.num * 100, avg_calories.den * Val(goal))
                  ELSE Zero]
        ELSE [days_with_logs |-> 0, avg_calories |-> Zero, avg_protein |-> Zero,
              avg_carbs |-> Zero, avg_fat |-> Zero, avg_goal_percent |-> Zero]

\* the three earliest days with logs
EarliestTotals(daily_totals) == SubSeq(WithLogs(daily_totals), 1, 3)

\* recent_totals = [d for d in daily_totals if d["log_count"] > 0][-3:]
RecentTotals(daily_totals) ==
    LET with_logs == WithLogs(daily_totals)
    IN  IF Len(with_logs) <= 3 THEN with_logs
        ELSE SubSeq(with_logs, Len(with_logs) - 2, Len(with_logs))

\* "Recent Trends" of log_summary: None when not reported
Trend(daily_totals) ==
    IF Len(daily_totals) >= 3 /\ DaysWithLogs(daily_totals) >= 3
       /\ Len(RecentTotals(daily_totals)) = 3
    THEN LET recent_totals == RecentTotals(daily_totals)
             cal_trend == recent_totals[3].calories - recent_totals[1].calories
         IN  IF Abs(cal_trend) < 50
             THEN Some([text |-> "stable", by |-> None])
             ELSE IF cal_trend > 0
             THEN Some([text |-> "increased", by |-> Some(cal_trend)])
             ELSE Some([text |-> "decreased", by |-> Some(Abs(cal_trend))])
    ELSE None

\* a classification whose stable band is 0.2 kg wide
WeightChangeTextWide(weight_change) ==
    IF Abs(weight_change) < 20 THEN [text |-> "stable", kg |-> None]
    ELSE IF weight_change > 0
    THEN [text |-> "gained", kg |-> Some(Round(weight_change, 10))]
    ELSE [text |-> "lost", kg |-> Some(Round(Abs(weight_change), 10))]

\* abs(weight_change) < 0.1: stable; else gained / lost f"{...:.1f}" kg
\* (weight_change in 1/100 kg, the amount printed in 1/10 kg)
WeightChangeText(weight_change) ==
    IF Abs(weight_change) < 10 THEN [text |-> "stable", kg |-> None]
    ELSE IF weight_change > 0
    THEN [text |-> "gained", kg |-> Some(Round(weight_change, 10))]
    ELSE [text |-> "lost", kg |-> Some(Round(Abs(weight_change), 10))]

\* the weight change of the period's weight logs in the order the query
\* returned them: None when there are fewer than two
WeightChange(ordered) ==
    IF Len(ordered) >= 2
    THEN LET first_weight == ordered[1].weight_kg
             last_weight == ordered[Len(ordered)].weight_kg
         IN  Some([first_weight |-> first_weight, last_weight |-> last_weight,
                   change |-> last_weight - first_weight]
                  @@ WeightChangeText(last_weight - first_weight))
    ELSE None

\* what log summary --username --days, run at `now`, prints; `ordered` is what
\* the weight log query returned
LogSummaryOutput(username, days, now, ordered) ==
    LET args == [username |-> username, days |-> days, now |-> now]
        Report(status, result) ==
            [cmd |-> "log_summary", args |-> args, status |-> status] @@ result
    IN  IF UserByUsername(username) = {}
        THEN Report("user_not_found", <<>>)
        ELSE LET u == CHOOSE u \in UserByUsername(username) : TRUE
                 logs == FoodLogsInPeriod(u, days, now)
                 goal == u.daily_calorie_goal
             IN  IF logs = {}
                 THEN Report("no_logs", <<>>)
                 ELSE IF AnyRaises(logs)
                 THEN Report("error", <<>>)
                 ELSE LET daily_totals == DailyTotals(logs, days, now, goal)
                      IN  IF DaysWithLogs(daily_totals) = 0
                          THEN Report("no_logs_in_period",
                                             [daily_totals |-> daily_totals])
                          ELSE Report("ok",
                                   [daily_totals |-> daily_totals,
                                    trend |-> Trend(daily_totals),
                                    weight_change |-> WeightChange(ordered)]
                                   @@ Averages(daily_totals, goal))

\* log summary --username --days
log_summary(username, days, now, ordered) ==
    out' = LogSummaryOutput(username, days, now, ordered)

\* the data export report --username --days, run at `now`, renders
ExportReportOutput(username, days, now, ordered) ==
    LET args == [username |-> username, days |-> days, now |-> now]
        Report(status, result) ==
            [cmd |-> "export_report", args |-> args, status |-> status] @@ result
    IN  IF UserByUsername(username) = {}
        THEN Report("user_not_found", <<>>)
        ELSE LET u == CHOOSE u \in UserByUsername(username) : TRUE
                 logs == FoodLogsInPeriod(u, days, now)
                 goal == u.daily_calorie_goal
             IN  IF AnyRaises(logs)
                 THEN Report("error", <<>>)
                 ELSE LET daily_data == DailyData(logs, days, now, goal)
                      IN  Report("ok",
                                   [daily_totals |-> daily_data,
                                    weight_change |-> WeightChange(ordered)]
                                   @@ ReportAverages(daily_data, goal))

\* export report --username --days
export_report(username, days, now, ordered) ==
    out' = ExportReportOutput(username, days, now, ordered)

\* 23:59:59 of a date (a tick after every time of day the clock reads)
EndOfDay(date) == [date |-> date, tod |-> 2]

\* log list --username --date
list_logs(username, date) ==
    LET args == [username |-> username, date |-> date]
        Report(status, result) ==
            [cmd |-> "list_logs", args |-> args, status |-> status] @@ result
    IN  IF UserByUsername(username) = {}
        THEN out' = Report("user_not_found", <<>>)
        ELSE LET u == CHOOSE u \in UserByUsername(username) : TRUE
                 logs == {l \in food_logs :
                             /\ l.user_id = u.id
                             /\ \E f \in foods : f.id = l.food_id
                             /\ DateTimeLE(Midnight(date), l.log_date)
                             /\ DateTimeLE(l.log_date, EndOfDay(date))}
                 goal == u.daily_calorie_goal
             IN  IF logs = {}
                 THEN out' = Report("no_logs", <<>>)
                 ELSE IF AnyRaises(logs)
                 THEN out' = Report("error", <<>>)
                 ELSE LET total_calories == SumOf("calories", logs)
                      IN  out' = Report("ok",
                                   [total_calories |-> total_calories,
                                    total_protein |-> SumOf("protein_g", logs),
                                    total_carbs |-> SumOf("carbs_g", logs),
                                    total_fat |-> SumOf("fat_g", logs),
                                    \* shown `if user.daily_calorie_goal:`
                                    percent |->
                                        IF Truthy(goal)
                                        THEN Some(GoalPercent(total_calories, goal))
                                        ELSE None,
                                    remaining |->
                                        IF Truthy(goal)
                                        THEN Some(Val(goal) - total_calories)
                                        ELSE None])

\* the options of `log summary` / `export report`
SummaryDays == {1, 7}

\* every order the weight log query of the period can return
WeightLogOrders(username, days, now) ==
    IF UserByUsername(username) = {} THEN {<<>>}
    ELSE OrderedByLogDate(WeightLogsInPeriod(CHOOSE u \in UserByUsername(username) : TRUE,
                                            days, now))

LogSummary ==
    \E username \in Usernames, days \in SummaryDays, now \in LocalNow :
        \E ordered \in WeightLogOrders(username, days, now) :
            /\ log_summary(username, days, now, ordered)
            /\ UNCHANGED <<today, db, calc, nutr, session>>

ExportReport ==
    \E username \in Usernames, days \in SummaryDays, now \in LocalNow :
        \E ordered \in WeightLogOrders(username, days, now) :
            /\ export_report(username, days, now, ordered)
            /\ UNCHANGED <<today, db, calc, nutr, session>>

ListLogs ==
    \E username \in Usernames, date \in LogDates :
        /\ list_logs(username, date)
        /\ UNCHANGED <<today, db, calc, nutr, session>>

(***************************************************************************)
(* Meals of two users over two days, summarised                            *)
(***************************************************************************)
MaxMealUsers == 2
MaxMealLogs == 3

\* profiles whose stored calorie goal is 2207, none (no height) and 0
\* (10 * 8 + 6.25 * 10.4 - 5 * 30 + 5 = 0)
MealProfiles ==
    {[birth_date |-> Some(Date(1995, 6, 15)), gender |-> "male",
      height_cm |-> Some(18000), weight_kg |-> Some(8000),
      activity_level |-> "moderate", weight_goal |-> "lose",
      target_weight_kg |-> None],
     [birth_date |-> Some(Date(1995, 6, 15)), gender |-> "male",
      height_cm |-> None, weight_kg |-> Some(8000),
      activity_level |-> "moderate", weight_goal |-> "lose",
      target_weight_kg |-> None],
     [birth_date |-> Some(Date(1995, 6, 15)), gender |-> "male",
      height_cm |-> Some(1040), weight_kg |-> Some(800),
      activity_level |-> "moderate", weight_goal |-> "lose",
      target_weight_kg |-> None]}


WithinMealBounds == Within(MaxMealUsers, 1, MaxMealLogs, MaxMealUsers, MaxMealLogs)

CreateUserWithGoal ==
    \E username \in Usernames, p \in MealProfiles, now \in UtcNow :
        /\ create_user(username, None, p, now)
        /\ WithinMealBounds
        /\ UNCHANGED <<today, calc, nutr, session>>

AddOneFood ==
    \E name \in FoodNames, n \in FoodInputs :
        /\ add_food(name, None, n, None, TRUE)
        /\ WithinMealBounds
        /\ UNCHANGED <<today, calc, nutr, session>>

LogMealOnDate ==
    \E username \in Usernames, serving \in MealServings, meal_type \in MealTypes,
       date \in LogDates :
        /\ log_meal(username, 1, serving, meal_type, date)
        /\ WithinMealBounds
        /\ UNCHANGED <<today, calc, nutr, session>>

NextMeals ==
    CreateUserWithGoal \/ AddOneFood \/ LogMealOnDate
    \/ LogSummary \/ ExportReport \/ ListLogs

SpecMeals == Init /\ [][NextMeals]_vars

(***************************************************************************)
(* Meals of one user over four days, summarised                            *)
(***************************************************************************)
MaxTrendLogs == 4
TrendDates == {Date(2025, 6, 12), Date(2025, 6, 13), Date(2025, 6, 14), Date(2025, 6, 15)}
\* 150 g and 175 g: 300 and 350 kcal of the 200 kcal / 100 g food
TrendServings == {1500, 1750}

WithinTrendBounds == Within(1, 1, MaxTrendLogs, 1, MaxTrendLogs)

CreateAlice ==
    \E c \in CreateInputs, now \in UtcNow :
        /\ c.profile.height_cm /= None /\ c.profile.weight_kg /= None
        /\ create_user("alice", c.email, c.profile, now)
        /\ WithinTrendBounds
        /\ UNCHANGED <<today, calc, nutr, session>>

AddOats ==
    \E n \in FoodInputs :
        /\ n.serving_size_g /= 0
        /\ add_food("oats", None, n, None, TRUE)
        /\ WithinTrendBounds
        /\ UNCHANGED <<today, calc, nutr, session>>

LogServingOnDate ==
    \E serving \in TrendServings, meal_type \in MealTypes, date \in TrendDates :
        /\ log_meal("alice", 1, serving, meal_type, date)
        /\ WithinTrendBounds
        /\ UNCHANGED <<today, calc, nutr, session>>

NextTrend == CreateAlice \/ AddOats \/ LogServingOnDate \/ LogSummary

SpecTrend == Init /\ [][NextTrend]_vars

(***************************************************************************)
(* Weights of two users logged over two days, summarised                   *)
(***************************************************************************)
MaxWeighedLogs == 3
\* 80.05, 80.11 and 79.89 kg, next to the 80 kg a user is created with
PeriodWeights == {8005, 8011, 7989}

WithinWeighedBounds == Within(2, 1, 2, MaxWeighedLogs, MaxWeighedLogs)

CreateUserWithWeight ==
    \E username \in Usernames, c \in CreateInputs, now \in UtcNow :
        /\ c.profile.height_cm /= None /\ c.profile.weight_kg /= None
        /\ create_user(username, None, c.profile, now)
        /\ WithinWeighedBounds
        /\ UNCHANGED <<today, calc, nutr, session>>

AddOatsForAll ==
    \E n \in FoodInputs :
        /\ n.serving_size_g /= 0
        /\ add_food("oats", None, n, None, TRUE)
        /\ WithinWeighedBounds
        /\ UNCHANGED <<today, calc, nutr, session>>

LogMealToday ==
    \E username \in Usernames, serving \in MealServings, meal_type \in MealTypes :
        /\ \A l \in food_logs : \E u \in UserByUsername(username) : l.user_id /= u.id
        /\ log_meal(username, 1, serving, meal_type, today)
        /\ WithinWeighedBounds
        /\ UNCHANGED <<today, calc, nutr, session>>

LogWeightInPeriod ==
    \E username \in Usernames, w \in PeriodWeights, date \in LogDates, now \in UtcNow :
      \E previous_logs \in PreviousLogs(username, date) :
        /\ log_weight(username, w, date, now, previous_logs)
        /\ WithinWeighedBounds
        /\ UNCHANGED <<today, calc, nutr, session>>

NextWeights ==
    CreateUserWithWeight \/ AddOatsForAll \/ LogMealToday \/ LogWeightInPeriod
    \/ LogSummary \/ ExportReport

SpecWeights == Init /\ [][NextWeights]_vars

(***************************************************************************)
(* Meals logged inside and outside the window of the summary               *)
(***************************************************************************)
MaxWindowLogs == 4
\* --date: yesterday, today, tomorrow
WindowDates == {Date(2025, 6, 14), Date(2025, 6, 15), Date(2025, 6, 16)}

WithinWindowBounds == Within(2, 1, MaxWindowLogs, 2, MaxWindowLogs)

CreateUserForWindow ==
    \E username \in Usernames, c \in CreateInputs, now \in UtcNow :
        /\ c.profile.height_cm /= None /\ c.profile.weight_kg /= None
        /\ create_user(username, None, c.profile, now)
        /\ WithinWindowBounds
        /\ UNCHANGED <<today, calc, nutr, session>>

AddOatsForWindow ==
    \E n \in FoodInputs :
        /\ n.serving_size_g /= 0
        /\ add_food("oats", None, n, None, TRUE)
        /\ WithinWindowBounds
        /\ UNCHANGED <<today, calc, nutr, session>>

LogMealInOrOutOfWindow ==
    \E username \in Usernames, serving \in MealServings, meal_type \in MealTypes,
       date \in WindowDates :
        /\ log_meal(username, 1, serving, meal_type, date)
        /\ WithinWindowBounds
        /\ UNCHANGED <<today, calc, nutr, session>>

NextWindow ==
    CreateUserForWindow \/ AddOatsForWindow \/ LogMealInOrOutOfWindow \/ LogSummary

SpecWindow == Init /\ [][NextWindow]_vars

(***************************************************************************)
(* One user's meals and weights, summarised and reported                   *)
(***************************************************************************)
MaxComparedMeals == 2
MaxComparedWeights == 3

WithinComparedBounds ==
    Within(1, 1, MaxComparedMeals, MaxComparedWeights, MaxComparedWeights)

CreateBob ==
    \E p \in MealProfiles, now \in UtcNow :
        /\ create_user("bob", None, p, now)
        /\ WithinComparedBounds
        /\ UNCHANGED <<today, calc, nutr, session>>

AddComparedFood ==
    \E n \in FoodInputs :
        /\ n.serving_size_g /= 0
        /\ add_food("oats", None, n, None, TRUE)
        /\ WithinComparedBounds
        /\ UNCHANGED <<today, calc, nutr, session>>

LogComparedMeal ==
    \E serving \in TrendServings, meal_type \in MealTypes, date \in LogDates :
        /\ log_meal("bob", 1, serving, meal_type, date)
        /\ WithinComparedBounds
        /\ UNCHANGED <<today, calc, nutr, session>>

LogComparedWeight ==
    \E w \in PeriodWeights, date \in LogDates, now \in UtcNow :
      \E previous_logs \in PreviousLogs("bob", date) :
        /\ log_weight("bob", w, date, now, previous_logs)
        /\ WithinComparedBounds
        /\ UNCHANGED <<today, calc, nutr, session>>

NextCompared ==
    CreateBob \/ AddComparedFood \/ LogComparedMeal \/ LogComparedWeight
    \/ LogSummary \/ ExportReport

SpecCompared == Init /\ [][NextCompared]_vars

(***************************************************************************)
(* Weights logged towards a target                                         *)
(***************************************************************************)
MaxProgressLogs == 4
\* --date: yesterday, today, tomorrow
ProgressDates == {Date(2025, 6, 14), Date(2025, 6, 15), Date(2025, 6, 16)}
\* --weight-kg: 75.4, 74 and 79.5 kg
ProgressWeights == {7540, 7400, 7950}
\* --target-weight-kg: not given, 0 and 75 kg
TargetWeights == {None, Some(0), Some(7500)}

WithinProgressBounds == Within(2, 0, 0, MaxProgressLogs, MaxProgressLogs)

CreateUserWithTarget ==
    \E username \in Usernames, target \in TargetWeights, now \in UtcNow :
        /\ create_user(username, None,
                       [birth_date |-> Some(Date(1995, 6, 15)), gender |-> "male",
                        height_cm |-> Some(18000), weight_kg |-> Some(8000),
                        activity_level |-> "moderate", weight_goal |-> "lose",
                        target_weight_kg |-> target], now)
        /\ WithinProgressBounds
        /\ UNCHANGED <<today, calc, nutr, session>>

LogWeightOnDate ==
    \E username \in Usernames, w \in ProgressWeights, date \in ProgressDates,
       now \in UtcNow :
      \E previous_logs \in PreviousLogs(username, date) :
        /\ log_weight(username, w, date, now, previous_logs)
        /\ WithinProgressBounds
        /\ UNCHANGED <<today, calc, nutr, session>>

NextProgress == CreateUserWithTarget \/ LogWeightOnDate

SpecProgress == Init /\ [][NextProgress]_vars

(***************************************************************************)
(* database/base.py: get_db_session, one unit of work step by step.        *)
(*   try: yield session; session.commit()                                  *)
(*   except Exception: session.rollback(); raise                           *)
(*   finally: session.close()                                              *)
(* The body between `with` and the end of the block adds rows, may commit  *)
(* on its own (as every command of cli/main.py does), and then returns or  *)
(* raises.  session.calls lists the calls get_db_session itself made.      *)
(***************************************************************************)
MaxSessionRows == 3
SessionRows == 1..MaxSessionRows

\* errors a body or a commit raises: subclasses of Exception, and one
\* BaseException that is not an Exception
Exceptions == {"IntegrityError", "ZeroDivisionError"}
BaseExceptions == Exceptions \cup {"KeyboardInterrupt"}

\* a handler that catches nothing
ExceptNothing(e) == FALSE

\* `except Exception:` catches e
ExceptException(e) == e \in Exceptions

InitSession ==
    /\ session = [pc |-> "body", calls |-> <<>>, pending |-> {}, stored |-> {},
                  body |-> "running", at_exit |-> {}, error |-> None, outcome |-> None]
    /\ today = CliToday
    /\ user = [weight_kg |-> None, height_cm |-> None, birth_date |-> None,
               gender |-> None, activity_level |-> None]
    /\ bmr_ret = NotCalled
    /\ tdee_ret = NotCalled
    /\ food_log = [food |-> None, serving_size_g |-> 0]
    /\ nutrition_ret = [called |-> FALSE]
    /\ derived_ret = [called |-> FALSE]
    /\ data_ret = [called |-> FALSE]
    /\ EmptyDb

SessionFrame == UNCHANGED <<today, db, out, calc, nutr>>

\* the body: session.add(row)
BodyAdd ==
    \E r \in SessionRows :
        /\ session.pc = "body"
        /\ r \notin session.pending \cup session.stored
        /\ session' = [session EXCEPT !.pending = @ \cup {r}]
        /\ SessionFrame

\* the body: its own session.commit()
BodyCommit ==
    /\ session.pc = "body"
    /\ session.pending /= {}
    /\ session' = [session EXCEPT !.stored = @ \cup session.pending, !.pending = {}]
    /\ SessionFrame

\* the body runs to its end (or returns early): control resumes after the yield
BodyReturns ==
    /\ session.pc = "body"
    /\ session' = [session EXCEPT !.pc = "commit", !.body = "returned",
                                  !.at_exit = session.stored]
    /\ SessionFrame

\* the body raises e: thrown into the generator at the yield
BodyRaises ==
    \E e \in BaseExceptions :
        /\ session.pc = "body"
        /\ session' = [session EXCEPT !.pc = IF ExceptException(e) THEN "except"
                                             ELSE "finally",
                                      !.body = "raised", !.at_exit = session.stored,
                                      !.error = Some(e)]
        /\ SessionFrame

\* session.commit() of get_db_session: stores the pending rows, or raises
SessionCommit ==
    /\ session.pc = "commit"
    /\ \/ session' = [session EXCEPT !.pc = "finally", !.calls = Append(@, "commit"),
                                      !.stored = @ \cup session.pending,
                                      !.pending = {}]
       \/ /\ session.pending /= {}
          /\ \E e \in Exceptions :
                session' = [session EXCEPT !.pc = IF ExceptException(e) THEN "except"
                                                   ELSE "finally",
                                          !.calls = Append(@, "commit"),
                                          !.error = Some(e)]
    /\ SessionFrame

\* session.rollback(); raise
SessionRollback ==
    /\ session.pc = "except"
    /\ session' = [session EXCEPT !.pc = "finally", !.calls = Append(@, "rollback"),
                                  !.pending = {}]
    /\ SessionFrame

\* session.close(): ends the transaction still in progress, if any; then the
\* error in flight, if any, reaches the caller
SessionClose ==
    /\ session.pc = "finally"
    /\ session' = [session EXCEPT !.pc = "done", !.calls = Append(@, "close"),
                                  !.pending = {}, !.outcome = session.error]
    /\ SessionFrame

NextSession ==
    BodyAdd \/ BodyCommit \/ BodyReturns \/ BodyRaises
    \/ SessionCommit \/ SessionRollback \/ SessionClose

SpecSession == InitSession /\ [][NextSession]_vars

(***************************************************************************)
(* create_user, two commands at the same time.  Each is a process of its   *)
(* own with its own Session on the same database file; a process reads the *)
(* tables when it runs its query and writes them when it commits.          *)
(*   existing_user = session.query(User)...first()        ExistenceCheck   *)
(*   session.add(user); session.commit()                  CommitUser       *)
(*   session.add(weight_log); session.commit(); echo      CommitWeightLog  *)
(* A commit that raises leaves the with block through get_db_session's     *)
(* `except Exception: session.rollback(); raise`, and create_user's own    *)
(* `except Exception` reports "Error creating user".                       *)
(***************************************************************************)
Commands == {1, 2}

Emails == {None, Some("a@example.com")}

\* --weight-kg given or not, and given as 0, on a profile otherwise complete
InterleavedProfiles ==
    {p \in GoalProfiles : p.birth_date /= None /\ p.height_cm = Some(18000)}

NotStarted ==
    [pc |-> "start", username |-> None, email |-> None, profile |-> None,
     user_id |-> None, reported |-> None]

InitInterleaved ==
    /\ session = [pc |-> "interleaved", unit |-> [c \in Commands |-> NotStarted]]
    /\ today = CliToday
    /\ user = [weight_kg |-> None, height_cm |-> None, birth_date |-> None,
               gender |-> None, activity_level |-> None]
    /\ bmr_ret = NotCalled
    /\ tdee_ret = NotCalled
    /\ food_log = [food |-> None, serving_size_g |-> 0]
    /\ nutrition_ret = [called |-> FALSE]
    /\ derived_ret = [called |-> FALSE]
    /\ data_ret = [called |-> FALSE]
    /\ EmptyDb

CreateUserReport(username, status) ==
    [cmd |-> "create_user", args |-> [username |-> username], status |-> status]

\* the command starts: its query for the username, and `if existing_user:`
ExistenceCheck(c) ==
    \E username \in Usernames, email \in Emails, p \in InterleavedProfiles :
        /\ session.unit[c].pc = "start"
        /\ IF UsernameExists(username)
           THEN \* "Error: Username ... already exists"; return
                /\ session' = [session EXCEPT !.unit[c] =
                        [NotStarted EXCEPT !.pc = "done", !.username = Some(username),
                                           !.email = email, !.profile = Some(p),
                                           !.reported = Some("username_exists")]]
                /\ out' = CreateUserReport(username, "username_exists")
           ELSE /\ session' = [session EXCEPT !.unit[c] =
                        [NotStarted EXCEPT !.pc = "checked", !.username = Some(username),
                                           !.email = email, !.profile = Some(p)]]
                /\ UNCHANGED out
        /\ UNCHANGED <<today, db, calc, nutr>>

\* User(...); session.add(user); session.commit()
CommitUser(c) ==
    \E now \in UtcNow :
        LET unit == session.unit[c]
            username == Val(unit.username)
            new == [NewUser(username, unit.email, Val(unit.profile))
                        EXCEPT !.id = NextId(users), !.updated_at = Some(now)]
        IN  /\ unit.pc = "checked"
            /\ IF UserIntegrityError(new)
               THEN \* the INSERT is refused: rollback, "Error creating user"
                    /\ session' = [session EXCEPT !.unit[c].pc = "done",
                                                  !.unit[c].reported = Some("error")]
                    /\ out' = CreateUserReport(username, "error")
                    /\ UNCHANGED users
               ELSE /\ users' = users \cup {new}
                    /\ session' = [session EXCEPT !.unit[c].pc = "user_committed",
                                                  !.unit[c].user_id = Some(new.id)]
                    /\ UNCHANGED out
            /\ UNCHANGED <<today, weight_logs, foods, categories, food_logs, calc, nutr>>

\* `if weight_kg:` WeightLog(...); session.add(weight_log); session.commit();
\* "User ... created successfully!"
CommitWeightLog(c) ==
    \E now \in UtcNow :
        LET unit == session.unit[c]
            weight_kg == Val(unit.profile).weight_kg
        IN  /\ unit.pc = "user_committed"
            /\ IF Truthy(weight_kg)
               THEN weight_logs' = weight_logs \cup
                        {[id |-> NextId(weight_logs), user_id |-> Val(unit.user_id),
                          weight_kg |-> Val(weight_kg), log_date |-> now,
                          notes |-> Some("Initial weight")]}
               ELSE UNCHANGED weight_logs
            /\ session' = [session EXCEPT !.unit[c].pc = "done",
                                          !.unit[c].reported = Some("ok")]
            /\ out' = CreateUserReport(Val(unit.username), "ok")
            /\ UNCHANGED <<today, users, foods, categories, food_logs, calc, nutr>>

NextInterleaved ==
    \E c \in Commands : ExistenceCheck(c) \/ CommitUser(c) \/ CommitWeightLog(c)

SpecInterleaved == InitInterleaved /\ [][NextInterleaved]_vars

(***************************************************************************)
(* Properties of calculate_bmr / calculate_tdee (specification SpecUser)   *)
(***************************************************************************)
\* all three of weight, height and birth date hold a value (are not null)
AllPresent(u) == u.weight_kg /= None /\ u.height_cm /= None /\ u.birth_date /= None

\* age in whole years: the year difference, less one while this year's
\* birthday is still ahead
WholeYears(birth, now) ==
    now.year - birth.year
    - (IF now.month * 100 + now.day < birth.month * 100 + birth.day THEN 1 ELSE 0)

\* v is the integer nearest to n/d (either neighbour on a tie)
IsNearestInteger(v, n, d) == 2 * Abs(v * d - n) <= d

\* 10*weight + 6.25*height - 5*age + offset, times 10000, for weight and height
\* given in 1/100
MifflinStJeor10000(w, h, age, offset) ==
    (10 * w * 100) + (625 * h) - (5 * age * 10000) + (offset * 10000)

\* C1: for every user whose weight, height and birth date are all present,
\* calculate_bmr returns the Mifflin-St Jeor value rounded to the nearest
\* integer (offset +5 for male, -161 for female, age in whole years today);
\* 80 kg, 180 cm, age 30, male gives 1780.
C1_BmrIsMifflinStJeor ==
    (bmr_ret.called /\ AllPresent(user) /\ user.gender \in {Some("male"), Some("female")})
    => /\ bmr_ret.value /= None
       /\ LET w == Val(user.weight_kg)
              h == Val(user.height_cm)
              age == WholeYears(Val(user.birth_date), today)
              offset == IF user.gender = Some("male") THEN 5 ELSE -161
          IN  /\ IsNearestInteger(Val(bmr_ret.value),
                                  MifflinStJeor10000(w, h, age, offset), 10000)
              /\ (w = 8000 /\ h = 18000 /\ age = 30 /\ offset = 5)
                 => bmr_ret.value = Some(1780)

\* C2: calculate_bmr and calculate_tdee return None whenever one of weight,
\* height, birth date is missing and a number whenever all three are present;
\* calculate_tdee is None exactly when calculate_bmr is None.
C2_UndefinedIffMissing ==
    /\ bmr_ret.called => (bmr_ret.value = None <=> ~AllPresent(user))
    /\ tdee_ret.called => (tdee_ret.value = None <=> ~AllPresent(user))
    /\ (bmr_ret.called /\ tdee_ret.called)
       => (tdee_ret.value = None <=> bmr_ret.value = None)

\* the multiplier of each activity level, in 1/1000; 1.55 for anything else
LevelMultiplier1000(level) ==
    CASE level = Some("sedentary")   -> 1200
      [] level = Some("light")       -> 1375
      [] level = Some("moderate")    -> 1550
      [] level = Some("active")      -> 1725
      [] level = Some("very_active") -> 1900
      [] OTHER                       -> 1550

\* C3: for every user with a defined BMR, calculate_tdee equals BMR times the
\* multiplier of the activity level, and BMR times 1.55 when the level is
\* unset or not one of the five levels.
C3_TdeeIsBmrTimesMultiplier ==
    (bmr_ret.called /\ tdee_ret.called /\ bmr_ret.value /= None)
    => tdee_ret.value = Some(Val(bmr_ret.value) * LevelMultiplier1000(user.activity_level))

\* both calls made on a user with a defined BMR whose level is none of the five
C3_Witness ==
    /\ bmr_ret.called /\ tdee_ret.called /\ bmr_ret.value /= None
    /\ user.activity_level = Some(OtherLevel)
    /\ tdee_ret.value = Some(Val(bmr_ret.value) * 1550)

(***************************************************************************)
(* Properties of serving scaling (specification SpecFood)                  *)
(***************************************************************************)
\* a nullable nutrient is null in the result exactly when null on the food,
\* and otherwise the nearest value to amount * s / size (size in `unit`s)
NullableScaled(result, amount, s, size) ==
    /\ result = None <=> amount = None
    /\ amount /= None => IsNearestInteger(Val(result), Val(amount) * s, size)

\* C5: for every food and serving weight s, calculate_nutrition_for_serving
\* scales every nutrient by s / food.serving_size_g: calories and sodium
\* rounded to the nearest integer, protein, carbs, fat, fiber and sugar to one
\* decimal place; fiber, sugar and sodium are null in the result exactly when
\* they are null on the food; 150 g of a food with 200 kcal per 100 g yields
\* 300 kcal.  (s / food.serving_size_g exists for a non-zero serving_size_g;
\* for 0 the call raises ZeroDivisionError.)
C5_ServingScaling ==
    (nutrition_ret.called /\ Val(food_log.food).serving_size_g /= 0)
    => LET food == Val(food_log.food)
           s == food_log.serving_size_g
           size == food.serving_size_g
           r == nutrition_ret.ret
       IN  /\ ~r.raised
           /\ IsNearestInteger(r.value.calories, food.calories * s, size)
           /\ IsNearestInteger(r.value.protein_g, food.protein_g * s, size)
           /\ IsNearestInteger(r.value.carbs_g, food.carbs_g * s, size)
           /\ IsNearestInteger(r.value.fat_g, food.fat_g * s, size)
           /\ NullableScaled(r.value.fiber_g, food.fiber_g, s, size)
           /\ NullableScaled(r.value.sugar_g, food.sugar_g, s, size)
           /\ NullableScaled(r.value.sodium_mg, food.sodium_mg, s, 10 * size)
           /\ (s = 1500 /\ size = 1000 /\ food.calories = 200) => r.value.calories = 300

\* the 150 g serving of a 200 kcal / 100 g food whose sugar is 0.0 (not null)
\* and whose fiber is null
C5_Witness ==
    /\ nutrition_ret.called
    /\ food_log.serving_size_g = 1500
    /\ Val(food_log.food).serving_size_g = 1000
    /\ Val(food_log.food).calories = 200
    /\ Val(food_log.food).sugar_g = Some(0)
    /\ Val(food_log.food).fiber_g = None
    /\ nutrition_ret.ret.value.calories = 300
    /\ nutrition_ret.ret.value.sugar_g = Some(0)
    /\ nutrition_ret.ret.value.fiber_g = None

\* C6: a FoodLog's calories, protein, carbs and fat are computed on read from
\* the referenced Food's per-serving values scaled by log.serving_size_g /
\* food.serving_size_g, equal to what calculate_nutrition_for_serving (and
\* get_nutrition_data) returns for that food and serving, and each is zero
\* when the Food reference is missing.  (The quotient exists for a non-zero
\* food.serving_size_g; for 0 the reads raise ZeroDivisionError.)
C6_DerivedOnRead ==
    derived_ret.called
    => /\ food_log.food = None
          => /\ derived_ret.calories = Return(0)
             /\ derived_ret.protein_g = Return(0)
             /\ derived_ret.carbs_g = Return(0)
             /\ derived_ret.fat_g = Return(0)
       /\ (food_log.food /= None /\ Val(food_log.food).serving_size_g /= 0)
          => LET food == Val(food_log.food)
                 s == food_log.serving_size_g
                 size == food.serving_size_g
                 AgreesWith(n) ==
                     /\ ~n.raised
                     /\ derived_ret.calories = Return(n.value.calories)
                     /\ derived_ret.protein_g = Return(n.value.protein_g)
                     /\ derived_ret.carbs_g = Return(n.value.carbs_g)
                     /\ derived_ret.fat_g = Return(n.value.fat_g)
             IN  /\ ~derived_ret.calories.raised
                 /\ IsNearestInteger(derived_ret.calories.value, food.calories * s, size)
                 /\ IsNearestInteger(derived_ret.protein_g.value, food.protein_g * s, size)
                 /\ IsNearestInteger(derived_ret.carbs_g.value, food.carbs_g * s, size)
                 /\ IsNearestInteger(derived_ret.fat_g.value, food.fat_g * s, size)
                 /\ nutrition_ret.called => AgreesWith(nutrition_ret.ret)
                 /\ data_ret.called => AgreesWith(data_ret.ret)

\* the derived values of a 45 g serving of a 30 g-per-serving food were read and
\* calculate_nutrition_for_serving was called for the same food and serving
C6_Witness ==
    /\ derived_ret.called /\ nutrition_ret.called /\ data_ret.called
    /\ food_log.serving_size_g = 450
    /\ Val(food_log.food).serving_size_g = 300
    /\ Val(food_log.food).calories = 155
    /\ derived_ret.calories = Return(232)
    /\ nutrition_ret.ret.value.calories = 232
    /\ derived_ret.protein_g.value = nutrition_ret.ret.value.protein_g

\* the derived values of a FoodLog without a Food were read
C6_WitnessMissingFood ==
    /\ derived_ret.called /\ food_log.food = None /\ food_log.serving_size_g = 1500
    /\ derived_ret.calories = Return(0)

(***************************************************************************)
(* Properties of the commands (specifications Spec and SpecCreate)         *)
(***************************************************************************)
\* g is n/d truncated toward zero
IsTruncation(g, n, d) ==
    IF n >= 0 THEN g * d <= n /\ n < (g + 1) * d
    ELSE g * d >= n /\ n > (g - 1) * d

\* the user just created by the command reported in out
CreatedUser == CHOOSE u \in users : u.username = out.args.username

\* C4 (under SpecCreate): the daily calorie goal stored at user creation is
\* TDEE*0.8 for lose, TDEE*1.15 for gain and TDEE for maintain, truncated to
\* an integer; hence for a positive TDEE the lose goal is at most the maintain
\* goal, which is at most the gain goal.
C4_GoalFromTdee ==
    (out.cmd = "create_user" /\ out.status = "ok"
        /\ calculate_tdee(CreatedUser, today) /= None)
    => LET u == CreatedUser
           tdee == Val(calculate_tdee(u, today))
       IN  /\ u.daily_calorie_goal /= None
           /\ u.weight_goal = "lose"
              => IsTruncation(Val(u.daily_calorie_goal), tdee * 8, 10 * 1000)
           /\ u.weight_goal = "gain"
              => IsTruncation(Val(u.daily_calorie_goal), tdee * 115, 100 * 1000)
           /\ u.weight_goal = "maintain"
              => IsTruncation(Val(u.daily_calorie_goal), tdee, 1000)
           /\ tdee > 0
              => /\ GoalForTdee(tdee, "lose") <= GoalForTdee(tdee, "maintain")
                 /\ GoalForTdee(tdee, "maintain") <= GoalForTdee(tdee, "gain")

\* the 80 kg / 180 cm / 30 year old male with moderate activity (TDEE 2759)
\* was created with the goal lose: 2759 * 0.8 = 2207.2, stored as 2207
C4_Witness ==
    /\ out.cmd = "create_user" /\ out.status = "ok"
    /\ CreatedUser.weight_goal = "lose"
    /\ calculate_tdee(CreatedUser, today) = Some(2759000)
    /\ CreatedUser.daily_calorie_goal = Some(2207)

\* C7: create user with a username that already belongs to a stored user
\* fails: the error is reported, no User row and no WeightLog row is added and
\* the existing user is left unchanged.
C7_DuplicateUsernameRejected ==
    [][(out'.cmd = "create_user"
          /\ \E u \in users : u.username = out'.args.username)
       => /\ out'.status = "username_exists"
          /\ users' = users
          /\ weight_logs' = weight_logs]_vars

\* create user was refused for the name of a stored user who has a weight log
C7_Witness ==
    /\ out.cmd = "create_user" /\ out.status = "username_exists"
    /\ \E u \in users : /\ u.username = out.args.username
                        /\ \E l \in weight_logs : l.user_id = u.id

\* C8: log meal appends exactly one FoodLog (for the given user, food, serving
\* size, meal type and date) when both the named user and the referenced food
\* exist; otherwise it reports not-found and leaves every stored row unchanged.
C8_LogMealAppendsOrNotFound ==
    [][out'.cmd = "log_meal"
       => LET a == out'.args
              named == {u \in users : u.username = a.username}
              referenced == {f \in foods : f.id = a.food_id}
          IN  IF named /= {} /\ referenced /= {}
              THEN /\ \E r \in food_logs' :
                        /\ r \notin food_logs
                        /\ food_logs' = food_logs \cup {r}
                        /\ \A l \in food_logs : l.id /= r.id
                        /\ \E u \in named : r.user_id = u.id
                        /\ r.food_id = a.food_id
                        /\ r.serving_size_g = a.serving_size
                        /\ r.meal_type = a.meal_type
                        /\ r.log_date = Midnight(a.date)
                   /\ UNCHANGED <<users, weight_logs, foods, categories>>
              ELSE /\ out'.status \in {"user_not_found", "food_not_found"}
                   /\ UNCHANGED db]_vars

\* a meal was logged for an existing user and food next to an older log
C8_Witness ==
    /\ out.cmd = "log_meal" /\ out.status = "ok"
    /\ Cardinality(food_logs) = 2
    /\ \E r \in food_logs : /\ r.food_id = out.args.food_id
                            /\ r.log_date = Midnight(out.args.date)
                            /\ \E u \in users : u.id = r.user_id
                                                /\ u.username = out.args.username

\* log meal reported not-found for a food id that no food has
C8_WitnessNotFound ==
    /\ out.cmd = "log_meal" /\ out.status = "food_not_found"
    /\ users /= {} /\ foods /= {}

\* C9: a successful log weight with weight w for an existing user appends
\* exactly one WeightLog with weight w for that user and sets that user's
\* stored current weight to w; for an unknown username it reports not-found
\* and changes nothing.
C9_LogWeightAppendsAndUpdates ==
    [][out'.cmd = "log_weight"
       => LET a == out'.args
              named == {u \in users : u.username = a.username}
          IN  IF named /= {}
              THEN /\ out'.status = "ok"
                   /\ \E r \in weight_logs' :
                        /\ r \notin weight_logs
                        /\ weight_logs' = weight_logs \cup {r}
                        /\ \A l \in weight_logs : l.id /= r.id
                        /\ \E u \in named : r.user_id = u.id
                        /\ r.weight_kg = a.weight_kg
                   /\ \A u \in named :
                        \E v \in users' : /\ v.id = u.id
                                          /\ v.username = u.username
                                          /\ v.weight_kg = Some(a.weight_kg)
                   /\ {u.id : u \in users'} = {u.id : u \in users}
              ELSE /\ out'.status = "user_not_found"
                   /\ UNCHANGED db]_vars

\* a weight of 79.5 kg was logged for a user created with 80 kg
C9_Witness ==
    /\ out.cmd = "log_weight" /\ out.status = "ok"
    /\ \E u \in users :
          /\ u.username = out.args.username
          /\ u.weight_kg = Some(out.args.weight_kg)
          /\ \E l \in weight_logs : l.user_id = u.id /\ l.weight_kg = 8000
          /\ \E l \in weight_logs : l.user_id = u.id /\ l.weight_kg = out.args.weight_kg

\* C10: deleting a user removes every WeightLog and every FoodLog owned by
\* that user and removes no WeightLog or FoodLog owned by any other user.
C10_DeleteCascades ==
    [][out'.cmd = "delete_user"
       => \E u \in users :
            /\ users' = users \ {u}
            /\ weight_logs' = {l \in weight_logs : l.user_id /= u.id}
            /\ food_logs' = {l \in food_logs : l.user_id /= u.id}]_vars

\* a user owning a weight log and a food log was deleted while another user's
\* weight log and food log stay stored
C10_Witness ==
    /\ out.cmd = "delete_user"
    /\ out.args.weight_logs_deleted >= 1
    /\ out.args.food_logs_deleted >= 1
    /\ \E u \in users : /\ \E l \in weight_logs : l.user_id = u.id
                        /\ \E l \in food_logs : l.user_id = u.id

\* C11: after any sequence of create user, add food, log meal, log weight and
\* delete user, every stored WeightLog and FoodLog references a user that
\* exists and every stored FoodLog references a food that exists.
C11_LogsReferenceExistingRows ==
    /\ \A l \in weight_logs : \E u \in users : u.id = l.user_id
    /\ \A l \in food_logs : /\ \E u \in users : u.id = l.user_id
                            /\ \E f \in foods : f.id = l.food_id

\* the first user was deleted; the second one, created before the deletion or
\* after it, owns a weight log and a food log just written by log meal
C11_Witness ==
    /\ out.cmd = "log_meal" /\ out.status = "ok"
    /\ \A u \in users : u.id = 2
    /\ \E u \in users : /\ \E l \in weight_logs : l.user_id = u.id
                        /\ \E l \in food_logs : l.user_id = u.id

\* C12: whenever create user, add food, log meal or log weight fails and
\* reports an error, none of its writes persist: the stored users, foods,
\* categories, food logs and weight logs are those of before the operation.
C12_NoPartialWrites ==
    [][(out'.cmd \in {"create_user", "add_food", "log_meal", "log_weight"}
          /\ out'.status = "error")
       => UNCHANGED db]_vars

(***************************************************************************)
(* Properties of get_db_session (specification SpecSession)                *)
(***************************************************************************)
\* the last call made on the Session so far
LastCall == session.calls[Len(session.calls)]

\* C13: get_db_session commits exactly when its body completes without
\* raising; when the body raises it rolls back (the pending rows are
\* discarded, by session.rollback() for every Exception), performs no commit
\* and passes the same error to the caller; in both cases the session is
\* closed as the last step.
C13_CommitOrRollbackThenClose ==
    /\ (session.pc \in {"finally", "done"})
       => ("commit" \in Range(session.calls) <=> session.body = "returned")
    /\ (session.pc /= "done") => "close" \notin Range(session.calls)
    /\ (session.pc = "done")
       => /\ LastCall = "close"
          /\ \A i, j \in DOMAIN session.calls :
                session.calls[i] = session.calls[j] => i = j
          /\ session.pending = {}
          /\ session.body = "raised"
             => /\ "commit" \notin Range(session.calls)
                /\ session.stored = session.at_exit
                /\ session.outcome = session.error /\ session.outcome /= None
                /\ Val(session.error) \in Exceptions
                   => session.calls = <<"rollback", "close">>
          /\ (session.body = "returned" /\ session.outcome = None)
             => session.calls = <<"commit", "close">>
          /\ (session.body = "returned" /\ session.outcome /= None)
             => /\ session.calls = <<"commit", "rollback", "close">>
                /\ session.stored = session.at_exit

\* a body that committed nothing raised ZeroDivisionError: rolled back, then
\* closed, the error passed on and nothing stored
C13_Witness ==
    /\ session.pc = "done" /\ session.body = "raised"
    /\ session.outcome = Some("ZeroDivisionError")
    /\ session.calls = <<"rollback", "close">>
    /\ session.stored = {} /\ session.at_exit = {}

\* a body added a row and returned: committed, then closed, the row stored
C13_WitnessCommit ==
    /\ session.pc = "done" /\ session.body = "returned"
    /\ session.calls = <<"commit", "close">>
    /\ session.stored = {1} /\ session.outcome = None

(***************************************************************************)
(* Uniqueness (specification SpecCatalog)                                  *)
(***************************************************************************)
\* C14: after any sequence of create user and add food, no two stored users
\* share a username, no two stored users share a non-null email, and no two
\* stored food categories share a name: add food with an existing category
\* name reuses that category (every food is tagged with stored categories).
C14_UniqueNames ==
    /\ \A u, v \in users : u.username = v.username => u = v
    /\ \A u, v \in users : (u.email /= None /\ u.email = v.email) => u = v
    /\ \A c, d \in categories : c.name = d.name => c = d
    /\ \A f \in foods : \A id \in f.categories : \E c \in categories : c.id = id

\* two foods were added under the same category name and share the one stored
\* category of that name; two users are stored, one of them with an email
C14_Witness ==
    /\ \E f, g \in foods : f.id /= g.id /\ f.categories = g.categories
                            /\ f.categories /= {}
    /\ Cardinality(categories) = 1
    /\ \E u, v \in users : u.id /= v.id /\ u.email /= None /\ v.email = None

\* create user was refused for an email that a stored user already has
C14_WitnessEmail ==
    /\ out.cmd = "create_user" /\ out.status = "error"
    /\ \E u \in users : u.email = Some("a@example.com")
                         /\ u.username /= out.args.username

(***************************************************************************)
(* Properties of the period summary and the report (specifications         *)
(* SpecMeals, SpecTrend)                                                   *)
(***************************************************************************)
\* the last command was a summary or a report that computed its statistics
Summarised == out.cmd \in {"log_summary", "export_report"} /\ out.status = "ok"

\* the user the last command was run for
SummaryUser == CHOOSE u \in users : u.username = out.args.username

\* the calendar dates of June 2025
June == {Date(2025, 6, n) : n \in 1..30}

\* the calendar dates of the period of the last summary: the day it ran on and
\* the days - 1 days before it
PeriodDates ==
    {d \in June :
        /\ out.args.now.date \in June
        /\ d.day <= out.args.now.date.day
        /\ d.day > out.args.now.date.day - out.args.days}

\* the user's food logs of a calendar date, whatever their time of day
UserLogsOn(d) ==
    {l \in food_logs : l.user_id = SummaryUser.id /\ l.log_date.date = d}

\* the dates of the period on which the user has at least one log
LoggedDates == {d \in PeriodDates : UserLogsOn(d) /= {}}

\* the sum of a derived value over all logs of the logged dates
PeriodSum(field) == SumOf(field, UNION {UserLogsOn(d) : d \in LoggedDates})

\* the ratio r is the quotient n / d
IsQuotient(r, n, d) == r.den /= 0 /\ r.num * d = n * r.den

\* C15: in the period summary (and the report) the average daily calories,
\* protein, carbs and fat are each the sum over the days of the period that
\* have at least one log divided by the number of those days, never by the
\* number of days of the period: over 7 days with logs on 2 the denominator
\* is 2.
C15_AverageOverLoggedDays ==
    (Summarised /\ LoggedDates /= {})
    => LET n == Cardinality(LoggedDates)
       IN  /\ out.days_with_logs = n
           /\ IsQuotient(out.avg_calories, PeriodSum("calories"), n)
           /\ IsQuotient(out.avg_protein, PeriodSum("protein_g"), n)
           /\ IsQuotient(out.avg_carbs, PeriodSum("carbs_g"), n)
           /\ IsQuotient(out.avg_fat, PeriodSum("fat_g"), n)
           /\ (out.args.days = 7 /\ n = 2) => out.avg_calories.den = 2

\* a summary over 7 days with logs on 2 of them: 600 kcal and 300 kcal, the
\* average 900 / 2
C15_Witness ==
    /\ out.cmd = "log_summary" /\ out.status = "ok"
    /\ out.args.days = 7 /\ Cardinality(LoggedDates) = 2
    /\ out.avg_calories = Ratio(900, 2)

\* the same in the report
C15_WitnessReport ==
    /\ out.cmd = "export_report" /\ out.status = "ok"
    /\ out.args.days = 7 /\ Cardinality(LoggedDates) = 2
    /\ out.avg_calories = Ratio(900, 2)

\* C16: daily aggregation over a period of N days produces exactly one row
\* per calendar date of the period; each of the user's FoodLogs is assigned
\* to the row of its calendar date regardless of its time of day; the row's
\* calories, protein, carbs and fat are the sums of the derived values of its
\* logs; a date with no logs yields a row with zero totals and log count 0
\* that is not counted among the days with logs.
C16_OneRowPerDate ==
    Summarised
    => LET rows == out.daily_totals
       IN  /\ Len(rows) = out.args.days
           /\ {rows[i].date : i \in DOMAIN rows} = PeriodDates
           /\ \A i, j \in DOMAIN rows :
                 i < j => DayOfYear(rows[i].date) < DayOfYear(rows[j].date)
           /\ \A i \in DOMAIN rows :
                 LET logs == UserLogsOn(rows[i].date)
                 IN  /\ rows[i].log_count = Cardinality(logs)
                     /\ rows[i].calories = SumOf("calories", logs)
                     /\ rows[i].protein = SumOf("protein_g", logs)
                     /\ rows[i].carbs = SumOf("carbs_g", logs)
                     /\ rows[i].fat = SumOf("fat_g", logs)
                     /\ logs = {} => /\ rows[i].calories = 0 /\ rows[i].protein = 0
                                     /\ rows[i].carbs = 0 /\ rows[i].fat = 0
           /\ out.days_with_logs = Cardinality({i \in DOMAIN rows : rows[i].log_count > 0})
           /\ out.days_with_logs = Cardinality(LoggedDates)

\* a 7-day summary of a user with two logs on June 14 (one row, 600 kcal), none
\* on June 15 (a zero row), while another user has a log on June 15
C16_Witness ==
    /\ Summarised /\ out.args.days = 7
    /\ out.daily_totals[6].date = Date(2025, 6, 14)
    /\ out.daily_totals[6].log_count = 2 /\ out.daily_totals[6].calories = 600
    /\ out.daily_totals[7].log_count = 0 /\ out.daily_totals[7].calories = 0
    /\ out.daily_totals[1].date = Date(2025, 6, 9)
    /\ out.days_with_logs = 1
    /\ \E l \in food_logs : l.user_id /= SummaryUser.id
                             /\ l.log_date.date = Date(2025, 6, 15)

\* the percentage p is calories / goal * 100 for a goal that is set, and zero
\* when no goal is set or the stored goal is 0; its quotient always exists
IsGoalPercent(p, calories, goal) ==
    /\ p.den /= 0
    /\ (goal /= None /\ Val(goal) /= 0) => p.num * Val(goal) = calories * 100 * p.den
    /\ (goal = None \/ goal = Some(0)) => p.num = 0

\* C17: the goal percentage of a day is day_calories / daily_calorie_goal *
\* 100 when the user has a daily calorie goal set, and zero when no goal is
\* set; computing it never divides by zero, also when the stored goal is 0
\* (log list shows a percentage only for a goal that is set and not 0; an
\* error of these commands comes from a food whose serving size is 0).
C17_GoalPercent ==
    /\ Summarised
       => \A i \in DOMAIN out.daily_totals :
                IsGoalPercent(out.daily_totals[i].goal_percent,
                              out.daily_totals[i].calories,
                              SummaryUser.daily_calorie_goal)
    /\ (out.cmd = "list_logs" /\ out.status = "ok")
       => LET goal == SummaryUser.daily_calorie_goal
          IN  /\ out.percent = None <=> (goal = None \/ goal = Some(0))
              /\ out.percent /= None
                 => IsGoalPercent(Val(out.percent), out.total_calories, goal)
    /\ (out.cmd \in {"log_summary", "export_report", "list_logs"}
           /\ out.status = "error")
       => \E f \in foods : f.serving_size_g = 0

\* a summary for a user whose stored goal is 0 and who logged 300 kcal today:
\* the percentage of the day is zero
C17_Witness ==
    /\ out.cmd = "log_summary" /\ out.status = "ok" /\ out.args.days = 1
    /\ SummaryUser.daily_calorie_goal = Some(0)
    /\ out.daily_totals[1].calories = 300
    /\ out.daily_totals[1].goal_percent = Zero

\* a day of 600 kcal against the goal 2207: 600 / 2207 * 100
C17_WitnessGoalSet ==
    /\ Summarised /\ SummaryUser.daily_calorie_goal = Some(2207)
    /\ \E i \in DOMAIN out.daily_totals :
          /\ out.daily_totals[i].calories = 600
          /\ out.daily_totals[i].goal_percent = Ratio(60000, 2207)

\* the calories of the user's logs of a date
CaloriesOn(d) == SumOf("calories", UserLogsOn(d))

\* C19: trend detection in the period summary takes the three most recent
\* days of the period that have logs and compares the calories of the latest
\* of them with the earliest: a difference of less than 50 kcal is reported
\* as stable, otherwise the signed delta (increase or decrease with its
\* amount); with fewer than three days with logs no trend is reported.
C19_TrendOfLastThreeLoggedDays ==
    (out.cmd = "log_summary" /\ out.status = "ok")
    => /\ Cardinality(LoggedDates) < 3 => out.trend = None
       /\ Cardinality(LoggedDates) >= 3
          => \E latest, middle, earliest \in LoggedDates :
                /\ DayOfYear(earliest) < DayOfYear(middle)
                /\ DayOfYear(middle) < DayOfYear(latest)
                /\ \A d \in LoggedDates \ {latest, middle, earliest} :
                      DayOfYear(d) < DayOfYear(earliest)
                /\ LET delta == CaloriesOn(latest) - CaloriesOn(earliest)
                   IN  /\ out.trend /= None
                       /\ Abs(delta) < 50
                          => Val(out.trend) = [text |-> "stable", by |-> None]
                       /\ delta >= 50
                          => Val(out.trend) = [text |-> "increased", by |-> Some(delta)]
                       /\ delta <= -50
                          => Val(out.trend) = [text |-> "decreased", by |-> Some(-delta)]

\* four days with logs, 350, 300, 300 and 350 kcal: the trend compares the
\* last with the second and reports an increase by 50
C19_Witness ==
    /\ out.cmd = "log_summary" /\ out.status = "ok"
    /\ Cardinality(LoggedDates) = 4
    /\ CaloriesOn(Date(2025, 6, 12)) = 350 /\ CaloriesOn(Date(2025, 6, 13)) = 300
    /\ CaloriesOn(Date(2025, 6, 15)) = 350
    /\ out.trend = Some([text |-> "increased", by |-> Some(50)])

\* three days with logs of 300 kcal each: stable
C19_WitnessStable ==
    /\ out.cmd = "log_summary" /\ out.status = "ok"
    /\ Cardinality(LoggedDates) = 3
    /\ out.trend = Some([text |-> "stable", by |-> None])

(***************************************************************************)
(* Properties of the weight change (specification SpecWeights)             *)
(***************************************************************************)
\* the user's WeightLogs whose timestamp lies in the period of the last
\* summary: from midnight of its first day to the time it ran
PeriodWeightLogs ==
    {l \in weight_logs :
        /\ l.user_id = SummaryUser.id
        /\ l.log_date.date \in PeriodDates
        /\ (l.log_date.date = out.args.now.date => l.log_date.tod <= out.args.now.tod)}

\* log a is not after log b by timestamp (date, then time of day)
NotAfter(a, b) ==
    \/ a.log_date.date.day < b.log_date.date.day
    \/ (a.log_date.date = b.log_date.date /\ a.log_date.tod <= b.log_date.tod)

\* the logs of the period that no log precedes / follows
Earliest == {a \in PeriodWeightLogs : \A l \in PeriodWeightLogs : NotAfter(a, l)}
Latest == {b \in PeriodWeightLogs : \A l \in PeriodWeightLogs : NotAfter(l, b)}

\* C18: the weight change of a period is the weight of the last minus the
\* weight of the first of the user's WeightLogs in the period, ordered by
\* timestamp ascending, and is computed only when the period has at least two
\* WeightLogs; an absolute change below 0.1 kg is reported as stable (0.05
\* kg), otherwise a positive change as gained and a negative one as lost,
\* with its magnitude printed to one decimal place (0.11 kg: 0.1).
C18_WeightChange ==
    Summarised
    => /\ out.weight_change = None <=> Cardinality(PeriodWeightLogs) < 2
       /\ out.weight_change /= None
          => LET c == Val(out.weight_change)
             IN  /\ \E a \in Earliest, b \in Latest :
                       /\ a /= b
                       /\ c.first_weight = a.weight_kg
                       /\ c.last_weight = b.weight_kg
                       /\ c.change = b.weight_kg - a.weight_kg
                 /\ Abs(c.change) < 10 => (c.text = "stable" /\ c.kg = None)
                 /\ c.change >= 10
                    => /\ c.text = "gained" /\ c.kg /= None
                       /\ IsNearestInteger(Val(c.kg), c.change, 10)
                 /\ c.change <= -10
                    => /\ c.text = "lost" /\ c.kg /= None
                       /\ IsNearestInteger(Val(c.kg), -c.change, 10)
                 /\ c.change = 5 => c.text = "stable"
                 /\ c.change = 11 => c.text = "gained"

\* a summary of a user created with 80 kg today who logged 80.11 kg for
\* yesterday: first 80.11, last 80, lost 0.11 kg
C18_Witness ==
    /\ out.cmd = "log_summary" /\ out.status = "ok" /\ out.args.days = 7
    /\ out.weight_change /= None
    /\ Val(out.weight_change).first_weight = 8011
    /\ Val(out.weight_change).last_weight = 8000
    /\ Val(out.weight_change).text = "lost"
    /\ Val(out.weight_change).kg = Some(1)

\* a change of 0.05 kg reported as stable by the report
C18_WitnessStable ==
    /\ out.cmd = "export_report" /\ out.status = "ok"
    /\ out.weight_change /= None
    /\ Abs(Val(out.weight_change).change) = 5
    /\ Val(out.weight_change).text = "stable"

\* 79.89 kg logged for yesterday, 80 kg today: gained 0.11 kg, printed 0.1
C18_WitnessGained ==
    /\ Summarised /\ out.weight_change /= None
    /\ Val(out.weight_change).change = 11
    /\ Val(out.weight_change).text = "gained"

\* a 1-day summary leaves out the weight logged for yesterday
C18_WitnessOutside ==
    /\ Summarised /\ out.args.days = 1
    /\ out.weight_change = None
    /\ Cardinality({l \in weight_logs : l.user_id = SummaryUser.id}) >= 2

\* C20: when two of a user's WeightLogs fall on the same calendar date they
\* are ordered by their full timestamp, so the first and the last weight of
\* the period are determined by the stored logs (by time of day within that
\* date) and not left to an arbitrary order.
C20_SameDateOrderDetermined ==
    (Summarised /\ out.weight_change /= None)
    => /\ \A a \in Earliest : Val(out.weight_change).first_weight = a.weight_kg
       /\ \A b \in Latest : Val(out.weight_change).last_weight = b.weight_kg

(***************************************************************************)
(* Properties of the log weight report (specification SpecProgress)        *)
(***************************************************************************)
WeightLogged == out.cmd = "log_weight" /\ out.status = "ok"

\* the user's logs dated before the date of the log just added
PriorLogs ==
    {l \in weight_logs :
        /\ l.user_id = SummaryUser.id
        /\ DayOfYear(l.log_date.date) < DayOfYear(out.args.date)}

\* the prior logs of the greatest date
MostRecentPrior ==
    {l \in PriorLogs :
        \A k \in PriorLogs : DayOfYear(k.log_date.date) <= DayOfYear(l.log_date.date)}

\* the report about the previous measurement is the difference to log l
ReportsDifferenceTo(l) ==
    LET diff == out.args.weight_kg - l.weight_kg
        r == Val(out.previous)
    IN  /\ out.previous /= None
        /\ diff = 0 => r.text = "no_change"
        /\ diff > 0 => /\ r.text = "gained"
                        /\ IsNearestInteger(Val(r.kg), diff, 10)
                        /\ r.on = Some(l.log_date.date)
        /\ diff < 0 => /\ r.text = "lost"
                        /\ IsNearestInteger(Val(r.kg), -diff, 10)
                        /\ r.on = Some(l.log_date.date)

\* the report about the previous measurement: none without a prior log, else
\* the difference to a prior log of the greatest date
C21_PreviousReported ==
    WeightLogged
    => /\ PriorLogs = {} <=> out.previous = None
       /\ PriorLogs /= {} => \E l \in MostRecentPrior : ReportsDifferenceTo(l)

\* the report about a target that is stored and not 0
C21_NonZeroTargetReported ==
    (WeightLogged /\ Truthy(SummaryUser.target_weight_kg))
    => LET d == out.args.weight_kg - Val(SummaryUser.target_weight_kg)
       IN  /\ out.target /= None
           /\ Abs(d) < 50 <=> Val(out.target).text = "reached"
           /\ d >= 50 => /\ Val(out.target).text = "above"
                          /\ IsNearestInteger(Val(Val(out.target).kg), d, 10)
           /\ d <= -50 => /\ Val(out.target).text = "below"
                           /\ IsNearestInteger(Val(Val(out.target).kg), -d, 10)

\* C21: after appending the new WeightLog, log weight reports the difference
\* between the new weight and the weight of the user's most recent prior log
\* by date, reports nothing about a previous measurement when the user has no
\* prior log, and, when a target weight is set, reports the distance to the
\* target: reached when within 0.5 kg, otherwise the amount above or below.
C21_LogWeightReports ==
    /\ C21_PreviousReported
    /\ C21_NonZeroTargetReported
    /\ WeightLogged
       => (SummaryUser.target_weight_kg /= None <=> out.target /= None)

(***************************************************************************)
(* Properties of the stored calorie goal (specification SpecGoal)          *)
(***************************************************************************)
UserCreated == out.cmd = "create_user" /\ out.status = "ok"

\* C22, as stated: whenever create user is given a weight, a daily calorie
\* goal derived from the user's BMR and TDEE is stored on the new user.
C22_GoalStoredWheneverWeightGiven ==
    (UserCreated /\ CreatedUser.weight_kg /= None)
    => CreatedUser.daily_calorie_goal /= None

\* C22, amended: create user stores a daily calorie goal exactly when it is
\* given a non-zero weight, a non-zero height and a birth date; the goal is
\* then the one derived from the user's TDEE (BMR times the activity
\* multiplier) for the weight goal, and the user created without one of the
\* three has no goal.
C22_GoalStoredWhenProfileComplete ==
    UserCreated
    => LET u == CreatedUser
           complete == /\ Truthy(u.weight_kg) /\ Truthy(u.height_cm)
                       /\ u.birth_date /= None
       IN  /\ complete <=> u.daily_calorie_goal /= None
           /\ complete
              => /\ calculate_bmr(u, today) /= None
                 /\ calculate_tdee(u, today)
                      = Some(Val(calculate_bmr(u, today)) * 1550)
                 /\ u.daily_calorie_goal
                      = Some(GoalForTdee(Val(calculate_tdee(u, today)), u.weight_goal))

\* the 80 kg / 180 cm / 30 year old male created with the goal gain:
\* 2759 * 1.15 = 3172.85, stored as 3172
C22_Witness ==
    /\ UserCreated
    /\ CreatedUser.weight_kg = Some(8000) /\ CreatedUser.height_cm = Some(18000)
    /\ CreatedUser.birth_date /= None /\ CreatedUser.weight_goal = "gain"
    /\ CreatedUser.daily_calorie_goal = Some(3172)

\* a user created with a weight and a height but no birth date has no goal
C22_WitnessNoBirthDate ==
    /\ UserCreated
    /\ CreatedUser.weight_kg = Some(8000) /\ CreatedUser.height_cm = Some(18000)
    /\ CreatedUser.birth_date = None
    /\ CreatedUser.daily_calorie_goal = None

(***************************************************************************)
(* Properties of the BMR across genders and of the age (SpecUser)          *)
(***************************************************************************)
\* calculate_bmr was called for a user of gender other with a BMR defined
BmrOfOther ==
    /\ bmr_ret.called /\ bmr_ret.value /= None
    /\ user.gender = Some("other")

\* what calculate_bmr returns for the same user with gender g
BmrAs(g) == Val(calculate_bmr([user EXCEPT !.gender = Some(g)], today))

\* C23, as stated: for every weight, height and age, the BMR returned for
\* gender other equals the arithmetic mean of the BMR returned for gender male
\* and the BMR returned for gender female on the same inputs.
C23_OtherIsMeanOfReturned ==
    BmrOfOther => 2 * Val(bmr_ret.value) = BmrAs("male") + BmrAs("female")

\* C23, amended: the BMR returned for gender other is the mean of the
\* unrounded male and female values of the equation, rounded to the nearest
\* integer; it equals the mean of the returned male and female BMR when the
\* equation gives a whole number and is within 1 of it otherwise.
C23_OtherIsRoundedMean ==
    BmrOfOther
    => LET w == Val(user.weight_kg)
           h == Val(user.height_cm)
           age == WholeYears(Val(user.birth_date), today)
           male == MifflinStJeor10000(w, h, age, 5)
           female == MifflinStJeor10000(w, h, age, -161)
           other == Val(bmr_ret.value)
       IN  /\ IsNearestInteger(other, male + female, 2 * 10000)
           /\ Abs(2 * other - (BmrAs("male") + BmrAs("female"))) <= 2
           /\ male % 10000 = 0 => 2 * other = BmrAs("male") + BmrAs("female")

\* 80 kg, 180 cm, age 30: male 1780, female 1614, other 1697
C23_Witness ==
    /\ BmrOfOther
    /\ user.weight_kg = Some(8000) /\ user.height_cm = Some(18000)
    /\ WholeYears(Val(user.birth_date), today) = 30
    /\ BmrAs("male") = 1780 /\ BmrAs("female") = 1614
    /\ bmr_ret.value = Some(1697)

\* 80 kg, 180.4 cm, age 30 (the equation gives 1777.5 before the offset):
\* male 1782, female 1616, other 1700
C23_WitnessHalf ==
    /\ BmrOfOther
    /\ user.weight_kg = Some(8000) /\ user.height_cm = Some(18040)
    /\ WholeYears(Val(user.birth_date), today) = 30
    /\ BmrAs("male") = 1782 /\ BmrAs("female") = 1616
    /\ bmr_ret.value = Some(1700)

\* today's month/day is before the birth month/day
BeforeBirthday(birth, now) ==
    \/ now.month < birth.month
    \/ (now.month = birth.month /\ now.day < birth.day)

\* C24: the age used by calculate_bmr is current year minus birth year,
\* reduced by 1 exactly when today's month/day is before the birth month/day;
\* on the birthday itself the age is not reduced. (The BMR returned is the
\* value of the equation for that age and for no other: a year changes it by
\* 5.)
C24_AgeAsOfToday ==
    (bmr_ret.called /\ bmr_ret.value /= None)
    => LET birth == Val(user.birth_date)
           age == (today.year - birth.year)
                  - (IF BeforeBirthday(birth, today) THEN 1 ELSE 0)
           w == Val(user.weight_kg)
           h == Val(user.height_cm)
           twice == IF user.gender = Some("male") THEN 2 * MifflinStJeor10000(w, h, age, 5)
                    ELSE IF user.gender = Some("female")
                    THEN 2 * MifflinStJeor10000(w, h, age, -161)
                    ELSE MifflinStJeor10000(w, h, age, 5)
                         + MifflinStJeor10000(w, h, age, -161)
       IN  /\ Age(birth, today) = age
           /\ IsNearestInteger(Val(bmr_ret.value), twice, 2 * 10000)
           /\ (today.month = birth.month /\ today.day = birth.day)
              => Age(birth, today) = today.year - birth.year

\* on the 30th birthday (born 1995-06-15, today 2025-06-15) the age is 30:
\* the 80 kg / 180 cm male has BMR 1780
C24_Witness ==
    /\ bmr_ret.called /\ user.gender = Some("male")
    /\ user.weight_kg = Some(8000) /\ user.height_cm = Some(18000)
    /\ user.birth_date = Some(Date(1995, 6, 15)) /\ today = Date(2025, 6, 15)
    /\ bmr_ret.value = Some(1780)

\* the day before the 30th birthday (born 1995-06-16) the age is 29: BMR 1785
C24_WitnessDayBefore ==
    /\ bmr_ret.called /\ user.gender = Some("male")
    /\ user.weight_kg = Some(8000) /\ user.height_cm = Some(18000)
    /\ user.birth_date = Some(Date(1995, 6, 16)) /\ today = Date(2025, 6, 15)
    /\ bmr_ret.value = Some(1785)

\* an earlier month with a later day (born 1990-01-31, today 2025-02-28): the
\* birthday has passed, the age is 35
C24_WitnessMonthPassed ==
    /\ bmr_ret.called /\ bmr_ret.value /= None
    /\ user.birth_date = Some(Date(1990, 1, 31)) /\ today = Date(2025, 2, 28)
    /\ Age(Val(user.birth_date), today) = 35

(***************************************************************************)
(* Linearity of the serving scaling (specification SpecFood)               *)
(***************************************************************************)
\* calculate_nutrition_for_serving was called and returned
NutritionReturned == nutrition_ret.called /\ ~nutrition_ret.ret.raised

\* the calories it returns for the same food and twice the serving weight
CaloriesOfDouble ==
    calculate_nutrition_for_serving(Val(food_log.food),
                                    2 * food_log.serving_size_g).value.calories

\* C25: serving scaling is linear in the serving weight: for every food and
\* serving weight s, the calories computed for serving 2*s equal twice the
\* calories computed for serving s, up to the rounding of each result to an
\* integer (they differ by at most 1; not at all when the calories for s are
\* a whole number before rounding).
C25_ServingScalingLinear ==
    NutritionReturned
    => LET food == Val(food_log.food)
           s == food_log.serving_size_g
           calories == nutrition_ret.ret.value.calories
       IN  /\ Abs(CaloriesOfDouble - 2 * calories) <= 1
           /\ (food.calories * s) % food.serving_size_g = 0
              => CaloriesOfDouble = 2 * calories

\* 155 kcal per 100 g: 150 g gives round(232.5) = 232 and 300 g gives 465,
\* one more than twice 232
C25_Witness ==
    /\ NutritionReturned
    /\ Val(food_log.food).calories = 155 /\ Val(food_log.food).serving_size_g = 1000
    /\ food_log.serving_size_g = 1500
    /\ nutrition_ret.ret.value.calories = 232
    /\ CaloriesOfDouble = 465

\* 200 kcal per 100 g: 150 g gives 300 and 300 g gives 600
C25_WitnessExact ==
    /\ NutritionReturned
    /\ Val(food_log.food).calories = 200 /\ Val(food_log.food).serving_size_g = 1000
    /\ food_log.serving_size_g = 1500
    /\ nutrition_ret.ret.value.calories = 300
    /\ CaloriesOfDouble = 600

(***************************************************************************)
(* The current weight and the frame of log weight                          *)
(***************************************************************************)
\* this step was a log weight that stored a log
WeightLoggedByStep == out'.cmd = "log_weight" /\ out'.status = "ok"

\* C26: after any sequence of successful log weight operations for a user,
\* the user's stored current weight equals the weight given to the most
\* recently executed log weight for that user, also when that operation's log
\* date is earlier than the date of an already stored WeightLog: every
\* successful log weight sets the current weight of its user to its weight,
\* and no other step changes the current weight of a stored user.
C26_CurrentWeightIsLastLogged ==
    [][/\ WeightLoggedByStep
          => \E v \in users' : /\ v.username = out'.args.username
                                /\ v.weight_kg = Some(out'.args.weight_kg)
       /\ \A u \in users, v \in users' :
             (u.id = v.id /\ u.weight_kg /= v.weight_kg)
             => /\ WeightLoggedByStep
                /\ out'.args.username = v.username]_vars

\* a log weight dated June 14 has just set the current weight although the
\* user has a log dated June 16 with another weight
C26_Witness ==
    /\ WeightLogged /\ out.args.date = Date(2025, 6, 14)
    /\ SummaryUser.weight_kg = Some(out.args.weight_kg)
    /\ \E l \in weight_logs : /\ l.user_id = SummaryUser.id
                               /\ l.log_date.date = Date(2025, 6, 16)
                               /\ l.weight_kg /= out.args.weight_kg
    /\ \A l \in weight_logs :
          (l.user_id = SummaryUser.id /\ l.log_date.date = Date(2025, 6, 14))
          => l.weight_kg = out.args.weight_kg

\* C27: log weight changes only the target user's current weight and
\* updated_at and adds one WeightLog: it leaves that user's daily calorie
\* goal, height, birth date, activity level, weight goal and target weight
\* unchanged (the stored calorie goal is not derived anew from the weight),
\* and it changes no other user, no Food and no FoodLog.
C27_LogWeightFrame ==
    [][WeightLoggedByStep
       => /\ foods' = foods /\ categories' = categories /\ food_logs' = food_logs
          /\ \E l \in weight_logs' :
                /\ l \notin weight_logs
                /\ weight_logs' = weight_logs \cup {l}
          /\ \E u \in users, v \in users' :
                /\ u.username = out'.args.username
                /\ users' \ {v} = users \ {u}
                /\ v = [u EXCEPT !.weight_kg = v.weight_kg,
                                  !.updated_at = v.updated_at]
                /\ v.daily_calorie_goal = u.daily_calorie_goal
                /\ v.height_cm = u.height_cm /\ v.birth_date = u.birth_date
                /\ v.activity_level = u.activity_level
                /\ v.weight_goal = u.weight_goal
                /\ v.target_weight_kg = u.target_weight_kg]_vars

\* a log weight of 79.89 kg has left the goal 2207 derived from 80 kg (the
\* goal for the new weight is another), beside another user, a food and a
\* food log
C27_Witness ==
    /\ WeightLogged /\ out.args.weight_kg = 7989
    /\ SummaryUser.weight_kg = Some(7989)
    /\ SummaryUser.daily_calorie_goal = Some(2207)
    /\ calculate_tdee(SummaryUser, today) /= None
    /\ GoalForTdee(Val(calculate_tdee(SummaryUser, today)), SummaryUser.weight_goal)
          /= 2207
    /\ Cardinality(users) = 2 /\ foods /= {} /\ food_logs /= {}

(***************************************************************************)
(* The window of the period summary (specification SpecWindow)             *)
(***************************************************************************)
\* the last command was a period summary that printed its rows
SummaryPrinted == out.cmd = "log_summary" /\ out.status = "ok"

\* the user's FoodLogs whose timestamp lies in the window: from midnight of
\* the first day of the period to the time the summary ran
WindowLogs ==
    {l \in food_logs :
        /\ l.user_id = SummaryUser.id
        /\ l.log_date.date \in PeriodDates
        /\ (l.log_date.date = out.args.now.date => l.log_date.tod <= out.args.now.tod)}

\* C28: in the period summary every FoodLog of the user whose timestamp lies
\* in the queried window is counted in exactly one date row of the period, so
\* the sum of the calories of all date rows equals the sum of the derived
\* calories of those logs; FoodLogs of other users and FoodLogs outside the
\* window (before the first day's midnight or after the current time)
\* contribute to no row.
C28_WindowLogsCountedOnce ==
    /\ SummaryPrinted
       => LET rows == out.daily_totals
          IN  /\ \A l \in WindowLogs :
                    Cardinality({i \in DOMAIN rows : rows[i].date = l.log_date.date}) = 1
              /\ \A i \in DOMAIN rows :
                    rows[i].log_count
                      = Cardinality({l \in WindowLogs : l.log_date.date = rows[i].date})
              /\ SumRows("log_count", rows) = Cardinality(WindowLogs)
              /\ SumRows("calories", rows) = SumOf("calories", WindowLogs)
    /\ (out.cmd = "log_summary" /\ out.status = "no_logs") => WindowLogs = {}

\* a 1-day summary of a user with a log of yesterday, one of today and one of
\* tomorrow, and a log of another user today: one row, one log, 300 kcal
C28_Witness ==
    /\ SummaryPrinted /\ out.args.days = 1
    /\ Len(out.daily_totals) = 1
    /\ out.daily_totals[1].log_count = 1 /\ out.daily_totals[1].calories = 300
    /\ \A d \in WindowDates : UserLogsOn(d) /= {}
    /\ \E l \in food_logs : /\ l.user_id /= SummaryUser.id
                             /\ l.log_date.date = out.args.now.date

\* a 7-day summary leaves out tomorrow's log and counts yesterday's
C28_WitnessWeek ==
    /\ SummaryPrinted /\ out.args.days = 7
    /\ out.daily_totals[6].log_count = 1 /\ out.daily_totals[7].log_count = 1
    /\ SumRows("log_count", out.daily_totals) = 2
    /\ UserLogsOn(Date(2025, 6, 16)) /= {}

(***************************************************************************)
(* Summary against report (specification SpecCompared)                     *)
(***************************************************************************)
\* two quotients are the same number
SameNumber(a, b) == a.den /= 0 /\ b.den /= 0 /\ a.num * b.den = b.num * a.den

\* two weight changes are classified alike
SameClassification(a, b) ==
    \/ a = None /\ b = None
    \/ /\ a /= None /\ b /= None
       /\ Val(a).text = Val(b).text /\ Val(a).kg = Val(b).kg

\* the outputs s of the summary and r of the report agree
SummaryAgreesWithReport(s, r) ==
    /\ s.status = "ok" /\ r.status = "ok"
    /\ s.days_with_logs = r.days_with_logs
    /\ SameNumber(s.avg_calories, r.avg_calories)
    /\ SameNumber(s.avg_protein, r.avg_protein)
    /\ SameNumber(s.avg_carbs, r.avg_carbs)
    /\ SameNumber(s.avg_fat, r.avg_fat)
    /\ SameNumber(s.avg_goal_percent, r.avg_goal_percent)
    /\ SameClassification(s.weight_change, r.weight_change)

\* C29: for the same user, the same stored logs and the same number of days,
\* with at least one FoodLog in the window, the summary command and the
\* report command compute the same number of days with logs, the same average
\* daily calories, protein, carbs and fat, the same average goal percentage
\* and the same weight-change classification (the weight log query returning
\* its rows to both in the same order).
C29_SummaryEqualsReport ==
    (Summarised /\ WindowLogs /= {})
    => \E ordered \in WeightLogOrders(out.args.username, out.args.days, out.args.now) :
          LET s == LogSummaryOutput(out.args.username, out.args.days, out.args.now,
                                    ordered)
              r == ExportReportOutput(out.args.username, out.args.days, out.args.now,
                                      ordered)
          IN  /\ out \in {s, r}
              /\ SummaryAgreesWithReport(s, r)

\* a 7-day report of a user with goal 2207, 300 kcal on one day and 350 kcal
\* on the other (average 325 over 2 days) and a weight change of -0.11 kg
C29_Witness ==
    /\ out.cmd = "export_report" /\ out.status = "ok" /\ out.args.days = 7
    /\ SummaryUser.daily_calorie_goal = Some(2207)
    /\ out.days_with_logs = 2
    /\ SameNumber(out.avg_calories, Ratio(325, 1))
    /\ SameNumber(out.avg_goal_percent, Ratio(32500, 2207))
    /\ out.weight_change /= None /\ Val(out.weight_change).change = -11
    /\ Val(out.weight_change).text = "lost"

\* the same state summarised
C29_WitnessSummary ==
    /\ out.cmd = "log_summary" /\ out.status = "ok" /\ out.args.days = 7
    /\ out.days_with_logs = 2
    /\ SameNumber(out.avg_calories, Ratio(325, 1))
    /\ out.weight_change /= None /\ Val(out.weight_change).text = "lost"

(***************************************************************************)
(* Properties of two create_user commands at the same time                 *)
(* (specification SpecInterleaved)                                         *)
(***************************************************************************)
\* command c found no user of its username when it ran its query
PassedCheck(c) ==
    session.unit[c].pc \in {"checked", "user_committed", "done"}
    /\ session.unit[c].reported /= Some("username_exists")

\* commands c and d were given the same username, and each passed its check
\* before the other committed
BothPassedCheck(c, d) ==
    /\ c /= d
    /\ PassedCheck(c) /\ PassedCheck(d)
    /\ session.unit[c].username = session.unit[d].username

\* command c has committed its user
StoredUser(c) == session.unit[c].user_id /= None

\* the weight logs of the user with this id
WeightLogsOf(id) == {l \in weight_logs : l.user_id = id}

\* C30: when two create user commands for the same username both pass the
\* existence check before either commits, at most one user of that username
\* is stored: once one of them has committed its user, the other one's commit
\* fails, it reports an error, and neither its user nor its initial weight log
\* is stored.
C30_LaterCommitFails ==
    /\ \A n \in Usernames : Cardinality(UserByUsername(n)) <= 1
    /\ \A c, d \in Commands :
          (BothPassedCheck(c, d) /\ StoredUser(d) /\ session.unit[c].pc = "done")
          => /\ session.unit[c].reported = Some("error")
             /\ session.unit[c].user_id = None
             /\ {u.id : u \in UserByUsername(Val(session.unit[d].username))}
                    = {Val(session.unit[d].user_id)}
             /\ users = UserByUsername(Val(session.unit[d].username))
             /\ weight_logs = WeightLogsOf(Val(session.unit[d].user_id))
             /\ Cardinality(weight_logs) =
                    IF session.unit[d].pc = "done"
                       /\ Truthy(Val(session.unit[d].profile).weight_kg)
                    THEN 1 ELSE 0

\* both commands have ended; the one whose commit came second was given a
\* weight and another email address, and nothing of it is stored
C30_Witness ==
    \E c, d \in Commands :
        /\ BothPassedCheck(c, d)
        /\ session.unit[c].pc = "done" /\ session.unit[d].pc = "done"
        /\ session.unit[d].reported = Some("ok")
        /\ session.unit[c].reported = Some("error")
        /\ Val(session.unit[c].profile).weight_kg = Some(8000)
        /\ session.unit[c].email /= session.unit[d].email
        /\ Cardinality(users) = 1

\* the later commit fails while the first command has still to store its
\* weight log
C30_WitnessBetweenCommits ==
    \E c, d \in Commands :
        /\ BothPassedCheck(c, d)
        /\ session.unit[c].reported = Some("error")
        /\ session.unit[d].pc = "user_committed"

====
